---- MODULE Spec2Model ----
(***************************************************************************)
(* Model of the aggregation pipeline of api/live.py: the news aggregator   *)
(* (merge_and_dedupe_news_items, fetch_news_feeds), the market selector    *)
(* (select_markets_for_dashboard, llm_rank_market_ids) and the reply       *)
(* parser (extract_ranked_ids).                                            *)
(*                                                                         *)
(* Strings are sequences of one-character strings, so lower-casing,        *)
(* stripping, prefix tests, truncation and tokenising are computed as the  *)
(* code computes them.  A dict is a record; a missing key is a field that  *)
(* is not in the record's DOMAIN.  The `time` strings are canonical        *)
(* `YYYY-MM-DDTHH:MM:SSZ` instants, whose lexicographic order is the order *)
(* of the instants: a time is modelled by a natural number, and the        *)
(* default "1970-01-01T00:00:00Z" by 0.                                    *)
(***************************************************************************)
EXTENDS Integers, Sequences, FiniteSets, TLC

VARIABLES
    rss_items,      \* merge: first argument (feed-sourced list)
    x_items,        \* merge: second argument (social-sourced list)
    limit,          \* merge: limit argument
    phase,          \* which operation of the news aggregator has run
    merged,         \* merge_and_dedupe_news_items(rss_items, x_items, limit)
    self_merged,    \* merge_and_dedupe_news_items(L, L, limit)
    once_merged,    \* merge_and_dedupe_news_items(L, [], limit)
    news,           \* fetch_news_feeds()
    markets,        \* select: the market list, volume-descending
    max_keep,       \* select: max_keep argument
    reply,          \* select: the text of the model's reply, when it replied
    ranked_ids,     \* select: what llm_rank_market_ids returned
    selected,       \* select: the returned list
    sel_phase,      \* select: how the reranker call ended
    text,           \* extract_ranked_ids: reply text
    max_count,      \* extract_ranked_ids: max_count argument
    max_index,      \* extract_ranked_ids: max_index argument
    ranked,         \* extract_ranked_ids: the returned list
    rank_phase,     \* extract_ranked_ids: "input" or "done"
    cand_items,     \* reranker of social items: the items argument
    anthropic_key,  \* reranker of social items: ANTHROPIC_API_KEY in the environment
    llm_response,   \* reranker of social items: how the request ended
    filter_result,  \* reranker of social items: what the call produced
    filter_phase,   \* reranker of social items: which branch was taken
    scored_post,    \* scorer: the post argument
    weights,        \* scorer: the account_weights argument
    now_hour,       \* scorer: the now argument, in hours
    verdict,        \* scorer: what is_high_signal_x_post returned
    score_phase,    \* scorer: "input" or "done"
    x_token,        \* social fetch: X_BEARER_TOKEN in the environment
    x_payload,      \* social fetch: the decoded search payload
    x_now,          \* social fetch: the now argument, in hours
    x_llm_key,      \* social fetch: ANTHROPIC_API_KEY in the environment
    x_llm_response, \* social fetch: how the reranker request ended
    x_fetch,        \* social fetch: what fetch_x_source_items produced
    x_phase,        \* social fetch: "input" or "done"
    poly_events,    \* market ingestor: the decoded event payload
    poly_markets,   \* market ingestor: what fetch_polymarket returned
    poly_phase,     \* market ingestor: "input" or "done"
    hist_markets,   \* history builder: the markets argument
    hist_fetches,   \* history builder: what each price-history fetch yielded
    noise_draws,    \* history builder: the draws of random.uniform(-3, 3)
    hist_now,       \* history builder: the current time, in hours
    odds_history,   \* history builder: the returned mapping
    markets_out,    \* history builder: the market records after the call
    hist_phase,     \* history builder: "input" or "done"
    feed_bodies,    \* feeds: what fetch_url and the XML parser give for each feed
    pending,        \* feeds: the feeds whose future has not been collected
    collected,      \* feeds: the items collected from the futures so far
    rss_news,       \* feeds: what fetch_rss_news_feeds returned
    news_out,       \* feeds: what fetch_news_feeds produced
    news_phase,     \* feeds: how far fetch_news_feeds and do_GET have come
    get_response    \* feeds: what do_GET sent

vars == <<rss_items, x_items, limit, phase, merged, self_merged, once_merged, news,
          markets, max_keep, reply, ranked_ids, selected, sel_phase,
          text, max_count, max_index, ranked, rank_phase,
          cand_items, anthropic_key, llm_response, filter_result, filter_phase,
          scored_post, weights, now_hour, verdict, score_phase,
          x_token, x_payload, x_now, x_llm_key, x_llm_response, x_fetch, x_phase,
          poly_events, poly_markets, poly_phase,
          hist_markets, hist_fetches, noise_draws, hist_now, odds_history, markets_out, hist_phase,
          feed_bodies, pending, collected, rss_news, news_out, news_phase, get_response>>

mergeVars == <<rss_items, x_items, limit, phase, merged, self_merged, once_merged, news>>
selectVars == <<markets, max_keep, reply, ranked_ids, selected, sel_phase>>
rankVars == <<text, max_count, max_index, ranked, rank_phase>>
filterVars == <<cand_items, anthropic_key, llm_response, filter_result, filter_phase>>
scoreVars == <<scored_post, weights, now_hour, verdict, score_phase>>
fetchVars == <<x_token, x_payload, x_now, x_llm_key, x_llm_response, x_fetch, x_phase>>
polyVars == <<poly_events, poly_markets, poly_phase>>
histVars == <<hist_markets, hist_fetches, noise_draws, hist_now, odds_history, markets_out, hist_phase>>
feedsVars == <<feed_bodies, pending, collected, rss_news, news_out, news_phase, get_response>>
\* the variables of the components that follow the reply parser
laterVars == <<filterVars, scoreVars, fetchVars, polyVars, histVars, feedsVars>>
\* for each of them, the variables of all the other components
filterRest == <<mergeVars, selectVars, rankVars, scoreVars, fetchVars, polyVars, histVars, feedsVars>>
scoreRest == <<mergeVars, selectVars, rankVars, filterVars, fetchVars, polyVars, histVars, feedsVars>>
fetchRest == <<mergeVars, selectVars, rankVars, filterVars, scoreVars, polyVars, histVars, feedsVars>>
polyRest == <<mergeVars, selectVars, rankVars, filterVars, scoreVars, fetchVars, histVars, feedsVars>>
histRest == <<mergeVars, selectVars, rankVars, filterVars, scoreVars, fetchVars, polyVars, feedsVars>>
\* fetch_news_feeds calls the social fetch, so its variables are not among the rest
feedsRest == <<mergeVars, selectVars, rankVars, filterVars, scoreVars, polyVars, histVars>>

(***************************************************************************)
(* Bounds of the model.                                                    *)
(***************************************************************************)
MaxItems == 3       \* length of rss_items + x_items in the fixture family
MaxFeed == 2        \* feed items in the quota family
MaxExtraX == 1      \* social items beyond X_RESERVED_NEWS_SLOTS in the quota family
MaxTime == 2        \* instants 1..MaxTime in the quota family
MaxLimitExtra == 2  \* limits up to X_RESERVED_NEWS_SLOTS + MaxLimitExtra
MaxMarketsExtra == 1 \* markets beyond the candidate pool of 20
MaxKeep == 3        \* max_keep in 0..MaxKeep
MaxReplyLen == 3    \* characters of a model reply
MaxCount == 3       \* max_count in 0..MaxCount
MaxIndex == 5       \* max_index in 0..MaxIndex
MaxLikes == 13      \* like_count in 0..MaxLikes
MaxReposts == 1     \* retweet_count in 0..MaxReposts
MaxReplies == 1     \* reply_count and quote_count in 0..MaxReplies
NowHour == 20       \* the hour of the scorer's `now`
MaxPosts == 2       \* posts of a payload of the mixed family
MaxPerAuthor == 3   \* posts of one account in a payload of the busy family
MaxHistMarkets == 7 \* markets handed to build_odds_history
NoiseSteps == 2     \* draws of random.uniform at k * 3 / NoiseSteps, k in -NoiseSteps..NoiseSteps
MaxActive == 7      \* active sub-markets of an event
MaxClosed == 2      \* closed sub-markets of an event

(***************************************************************************)
(* Program constants.                                                      *)
(***************************************************************************)
X_RESERVED_NEWS_SLOTS == 5
KEY_PREFIX_LEN == 80
CANDIDATE_POOL_SIZE == 20
NEWS_LIMIT == 25
EPOCH == 0

(***************************************************************************)
(* Python helpers.                                                         *)
(***************************************************************************)
Min(a, b) == IF a <= b THEN a ELSE b
Max(a, b) == IF a >= b THEN a ELSE b

\* s[:k] for k >= 0
Take(s, k) == SubSeq(s, 1, Min(Max(k, 0), Len(s)))

\* s.startswith(p)
StartsWith(s, p) == Len(s) >= Len(p) /\ SubSeq(s, 1, Len(p)) = p

\* d.get(k, default)
Get(d, k, default) == IF k \in DOMAIN d THEN d[k] ELSE default

UpperLetters == <<"A","B","C","D","E","F","G","H","I","J","K","L","M",
                  "N","O","P","Q","R","S","T","U","V","W","X","Y","Z">>
LowerLetters == <<"a","b","c","d","e","f","g","h","i","j","k","l","m",
                  "n","o","p","q","r","s","t","u","v","w","x","y","z">>
Digits == <<"0","1","2","3","4","5","6","7","8","9">>

UpperSet == {UpperLetters[i] : i \in 1..26}
LowerAlnumSet == {LowerLetters[i] : i \in 1..26} \cup {Digits[i] : i \in 1..10}
LowerOf == [c \in UpperSet |-> LowerLetters[CHOOSE i \in 1..26 : UpperLetters[i] = c]]

\* one character of str.lower()
LowerChar(c) == IF c \in UpperSet THEN LowerOf[c] ELSE c

\* str.lower()
Lower(s) == [i \in 1..Len(s) |-> LowerChar(s[i])]

\* the character class [a-z0-9]
IsLowerAlnum(c) == c \in LowerAlnumSet

\* re.sub(r"[^a-z0-9]", "", s)
StripNonAlnum(s) == SelectSeq(s, IsLowerAlnum)

(***************************************************************************)
(* News aggregator: merge_and_dedupe_news_items.                           *)
(***************************************************************************)
XUrlPrefix == <<"h","t","t","p","s",":","/","/","x",".","c","o","m","/">>
AtSign == <<"@">>

\* _news_dedupe_key(item)
_news_dedupe_key(item) ==
    LET title == Lower(Get(item, "title", <<>>))
        normalized == StripNonAlnum(title)
        url == Get(item, "url", <<>>)
        fallback == Lower(IF url # <<>> THEN url ELSE Get(item, "id", <<>>))
    IN  IF normalized # <<>>
        THEN Take(normalized, KEY_PREFIX_LEN)
        ELSE Take(fallback, KEY_PREFIX_LEN)

\* the sort key: item.get("time", "1970-01-01T00:00:00Z")
TimeKey(item) == Get(item, "time", EPOCH)

\* rss_items + x_items
Combine(rss, x) == rss \o x

\* a faulty variant of DedupeFrom: the last occurrence of a key replaces the first
RECURSIVE DedupeKeepLast(_, _, _, _)
DedupeKeepLast(combined, i, unique, seen) ==
    IF i > Len(combined) THEN unique
    ELSE LET item == combined[i]
             key == _news_dedupe_key(item)
         IN  IF key \in seen
             THEN DedupeKeepLast(combined, i + 1,
                      [k \in 1..Len(unique) |->
                          IF _news_dedupe_key(unique[k]) = key THEN item ELSE unique[k]],
                      seen)
             ELSE DedupeKeepLast(combined, i + 1, Append(unique, item), seen \cup {key})

\* a faulty variant of DedupeFrom: the seen set records the raw title, not the key
RECURSIVE DedupeRawTitle(_, _, _, _)
DedupeRawTitle(combined, i, unique, seen) ==
    IF i > Len(combined) THEN unique
    ELSE LET item == combined[i]
             key == Get(item, "title", <<>>)
         IN  IF key \in seen
             THEN DedupeRawTitle(combined, i + 1, unique, seen)
             ELSE DedupeRawTitle(combined, i + 1, Append(unique, item), seen \cup {key})

\* a faulty variant of DedupeFrom: seen.add(key) is left out
RECURSIVE DedupeNoSeen(_, _, _, _)
DedupeNoSeen(combined, i, unique, seen) ==
    IF i > Len(combined) THEN unique
    ELSE LET item == combined[i]
             key == _news_dedupe_key(item)
         IN  IF key \in seen
             THEN DedupeNoSeen(combined, i + 1, unique, seen)
             ELSE DedupeNoSeen(combined, i + 1, Append(unique, item), seen)

\* the loop `for item in combined` that fills unique and seen
RECURSIVE DedupeFrom(_, _, _, _)
DedupeFrom(combined, i, unique, seen) ==
    IF i > Len(combined) THEN unique
    ELSE LET item == combined[i]
             key == _news_dedupe_key(item)
         IN  IF key \in seen
             THEN DedupeFrom(combined, i + 1, unique, seen)
             ELSE DedupeFrom(combined, i + 1, Append(unique, item), seen \cup {key})

\* a faulty variant of InsertByTime: x goes to the end, whatever its time
InsertAtEnd(acc, x) == Append(acc, x)

\* one step of the stable descending sort: x goes after every element whose
\* key is >= its own (list.sort(key=..., reverse=True) keeps the order of ties)
InsertByTime(acc, x) ==
    LET k == Cardinality({i \in 1..Len(acc) : TimeKey(acc[i]) >= TimeKey(x)})
    IN  SubSeq(acc, 1, k) \o <<x>> \o SubSeq(acc, k + 1, Len(acc))

RECURSIVE SortFrom(_, _, _)
SortFrom(s, i, acc) ==
    IF i > Len(s) THEN acc ELSE SortFrom(s, i + 1, InsertByTime(acc, s[i]))

\* list.sort(key=lambda item: item.get("time", ...), reverse=True)
SortByTimeDesc(s) == SortFrom(s, 1, <<>>)

\* the social-origin test of the partition
IsXOrigin(item) ==
    \/ StartsWith(Get(item, "source", <<>>), AtSign)
    \/ StartsWith(Get(item, "url", <<>>), XUrlPrefix)

\* x_unique
XUnique(unique) == SelectSeq(unique, IsXOrigin)

\* non_x_unique: [item for item in unique if item not in x_unique]
NonXUnique(unique) ==
    LET xs == XUnique(unique)
        NotInX(item) == ~ \E k \in 1..Len(xs) : xs[k] = item
    IN  SelectSeq(unique, NotInX)

\* a faulty variant of ReservedX: no slot is reserved for social items
ReservedXNone(x_unique, lim) == 0

\* reserved_x = min(X_RESERVED_NEWS_SLOTS, len(x_unique), limit)
ReservedX(x_unique, lim) == Min(Min(X_RESERVED_NEWS_SLOTS, Len(x_unique)), lim)

\* a faulty variant of BackfillFrom: the backfill is left out
BackfillSkipped(unique, i, sel, lim) == sel

\* the backfill loop; the items of unique have pairwise different keys, so
\* they are pairwise different objects and id(item) is the item
RECURSIVE BackfillFrom(_, _, _, _)
BackfillFrom(unique, i, sel, lim) ==
    IF i > Len(unique) THEN sel
    ELSE IF \E k \in 1..Len(sel) : sel[k] = unique[i]
         THEN BackfillFrom(unique, i + 1, sel, lim)
         ELSE LET sel2 == Append(sel, unique[i])
              IN  IF Len(sel2) >= lim THEN sel2
                  ELSE BackfillFrom(unique, i + 1, sel2, lim)

\* a faulty variant of FinalSort: the selection is returned as the quota built it
FinalSortSkipped(sel) == sel

\* selected.sort(...) of the last lines
FinalSort(sel) == SortByTimeDesc(sel)

\* merge_and_dedupe_news_items(rss_items, x_items, limit)
merge_and_dedupe_news_items(rss, x, lim) ==
    LET combined == Combine(rss, x)
        unique == SortByTimeDesc(DedupeFrom(combined, 1, <<>>, {}))
    IN  IF lim <= 0 THEN <<>>
        ELSE LET x_unique == XUnique(unique)
                 non_x_unique == NonXUnique(unique)
                 reserved_x == ReservedX(x_unique, lim)
                 quota == Take(non_x_unique, Max(0, lim - reserved_x))
                              \o Take(x_unique, reserved_x)
                 filled == IF Len(quota) < lim
                           THEN BackfillFrom(unique, 1, quota, lim)
                           ELSE quota
             IN  Take(FinalSort(filled), lim)

\* fetch_rss_news_feeds(), from the items collected from the feeds
fetch_rss_news_feeds(all_items) ==
    IF all_items = <<>> THEN <<>>
    ELSE merge_and_dedupe_news_items(all_items, <<>>, NEWS_LIMIT)

\* fetch_news_feeds(), from the collected feed items and the social items
fetch_news_feeds(all_items, social) ==
    merge_and_dedupe_news_items(fetch_rss_news_feeds(all_items), social, NEWS_LIMIT)

(***************************************************************************)
(* Inputs of the news aggregator.  The fixture family draws short lists    *)
(* from items whose keys collide in every way the key function allows; the *)
(* quota family draws longer lists of pairwise different stories.          *)
(***************************************************************************)
WebPrefix == <<"h","t","t","p","s",":","/","/","e",".","c","o","/">>
\* KEY_PREFIX_LEN - 2 letters: with two letters before it a title reaches
\* the key's length, and what follows is cut off
LongTail == [i \in 1..(KEY_PREFIX_LEN - 2) |-> "p"]

\* feed item; its key is "ir" and the long tail
FeedOld == [id |-> <<"f","1">>, title |-> <<"I","r","!">> \o LongTail \o <<"a">>,
            url |-> WebPrefix \o <<"1">>, source |-> <<"R">>, time |-> 1]
\* feed item with the same key, newer
FeedNew == [id |-> <<"f","2">>, title |-> <<"i",".","r">> \o LongTail \o <<"b">>,
            url |-> WebPrefix \o <<"2">>, source |-> <<"R">>, time |-> 3]
\* social item with the same key, between the two
SocialMid == [id |-> <<"x","-","1">>, title |-> <<"I","R">> \o LongTail \o <<"c","d">>,
              url |-> XUrlPrefix \o <<"1">>, source |-> <<"@","a">>, time |-> 2]
\* social by its url alone, another story
SocialUrl == [id |-> <<"x","-","2">>, title |-> <<"q">>, url |-> XUrlPrefix \o <<"2">>,
              time |-> 3]
\* no title and no time: the key is the lower-cased url
NoTitle == [id |-> <<"u">>, url |-> WebPrefix \o <<"A">>]
\* a title without letters or digits: the key is the url, the same as NoTitle's
PunctTitle == [id |-> <<"v">>, title |-> <<"!">>, url |-> WebPrefix \o <<"a">>,
               source |-> <<"@","b">>, time |-> 2]

FixtureItems == {FeedOld, FeedNew, SocialMid, SocialUrl, NoTitle, PunctTitle}

SeqsUpTo(S, n) == UNION {[1..k -> S] : k \in 0..n}

SocialItem(i, t) == [id |-> <<"x","-", Digits[i + 1]>>, title |-> <<"s", Digits[i + 1]>>,
                     url |-> XUrlPrefix \o <<Digits[i + 1]>>, source |-> <<"@","a">>,
                     time |-> t]
FeedItem(j, t) == [id |-> <<"f", Digits[j + 1]>>, title |-> <<"f", Digits[j + 1]>>,
                   url |-> WebPrefix \o <<Digits[j + 1]>>, source |-> <<"R">>, time |-> t]

\* n social items whose instants rotate through 1..MaxTime
SocialList(n, shift) == [i \in 1..n |-> SocialItem(i, ((i + shift) % MaxTime) + 1)]

\* feed lists with instants up to MaxTime + 1, newer than every social item
FeedLists == UNION {{[j \in 1..m |-> FeedItem(j, ts[j])] : ts \in [1..m -> 1..(MaxTime + 1)]}
                    : m \in 0..MaxFeed}

InitSelectIdle ==
    /\ markets = <<>> /\ max_keep = 0 /\ reply = <<>> /\ ranked_ids = <<>>
    /\ selected = <<>> /\ sel_phase = "idle"

InitRankIdle ==
    /\ text = <<>> /\ max_count = 0 /\ max_index = 0 /\ ranked = <<>> /\ rank_phase = "idle"

InitMergeIdle ==
    /\ rss_items = <<>> /\ x_items = <<>> /\ limit = 0 /\ phase = "idle"
    /\ merged = <<>> /\ self_merged = <<>> /\ once_merged = <<>> /\ news = <<>>

InitFilterIdle ==
    /\ cand_items = <<>> /\ anthropic_key = <<>> /\ llm_response = [kind |-> "none"]
    /\ filter_result = [raised |-> FALSE] /\ filter_phase = "idle"

InitScoreIdle ==
    /\ scored_post = [id |-> <<>>] /\ weights = <<>> /\ now_hour = 0
    /\ verdict = [accepted |-> FALSE, score |-> 0] /\ score_phase = "idle"

InitFetchIdle ==
    /\ x_token = <<>> /\ x_payload = [empty |-> TRUE] /\ x_now = 0 /\ x_llm_key = <<>>
    /\ x_llm_response = [kind |-> "none"] /\ x_fetch = [ended |-> FALSE] /\ x_phase = "idle"

InitPolyIdle ==
    /\ poly_events = <<>> /\ poly_markets = <<>> /\ poly_phase = "idle"

InitHistIdle ==
    /\ hist_markets = <<>> /\ hist_fetches = <<>> /\ noise_draws = <<>> /\ hist_now = 0
    /\ odds_history = <<>> /\ markets_out = <<>> /\ hist_phase = "idle"

InitFeedsIdle ==
    feed_bodies = <<>> /\ pending = {} /\ collected = <<>> /\ rss_news = <<>> /\ news_out = [ended |-> FALSE] /\ news_phase = "idle"
    /\ get_response = [status |-> 0]

InitLaterIdle == InitFilterIdle /\ InitScoreIdle /\ InitFetchIdle /\ InitPolyIdle /\ InitHistIdle /\ InitFeedsIdle

InitFilterRestIdle ==
    /\ InitMergeIdle /\ InitSelectIdle /\ InitRankIdle
    /\ InitScoreIdle /\ InitFetchIdle /\ InitPolyIdle /\ InitHistIdle /\ InitFeedsIdle

InitScoreRestIdle ==
    /\ InitMergeIdle /\ InitSelectIdle /\ InitRankIdle
    /\ InitFilterIdle /\ InitFetchIdle /\ InitPolyIdle /\ InitHistIdle /\ InitFeedsIdle

InitFetchRestIdle ==
    /\ InitMergeIdle /\ InitSelectIdle /\ InitRankIdle
    /\ InitFilterIdle /\ InitScoreIdle /\ InitPolyIdle /\ InitHistIdle /\ InitFeedsIdle

InitPolyRestIdle ==
    /\ InitMergeIdle /\ InitSelectIdle /\ InitRankIdle
    /\ InitFilterIdle /\ InitScoreIdle /\ InitFetchIdle /\ InitHistIdle /\ InitFeedsIdle

InitFeedsRestIdle ==
    /\ InitMergeIdle /\ InitSelectIdle /\ InitRankIdle
    /\ InitFilterIdle /\ InitScoreIdle /\ InitPolyIdle /\ InitHistIdle

InitHistRestIdle ==
    /\ InitMergeIdle /\ InitSelectIdle /\ InitRankIdle
    /\ InitFilterIdle /\ InitScoreIdle /\ InitFetchIdle /\ InitPolyIdle /\ InitFeedsIdle

InitFixtures ==
    /\ \E all \in SeqsUpTo(FixtureItems, MaxItems) : \E k \in 0..Len(all) :
          /\ rss_items = SubSeq(all, 1, k)
          /\ x_items = SubSeq(all, k + 1, Len(all))
    /\ limit \in (-1..(MaxItems + 1)) \cup {NEWS_LIMIT}

InitQuota ==
    /\ rss_items \in FeedLists
    /\ \E n \in 0..(X_RESERVED_NEWS_SLOTS + MaxExtraX) : \E shift \in 0..(MaxTime - 1) :
          x_items = SocialList(n, shift)
    /\ limit \in (1..(X_RESERVED_NEWS_SLOTS + MaxLimitExtra)) \cup {NEWS_LIMIT}

\* two social items more than are reserved and no feed item: the backfill
\* has to choose among the social items
InitBackfill ==
    /\ rss_items = <<>>
    /\ \E shift \in 0..(MaxTime - 1) : x_items = SocialList(X_RESERVED_NEWS_SLOTS + 2, shift)
    /\ limit \in (X_RESERVED_NEWS_SLOTS + 1)..(X_RESERVED_NEWS_SLOTS + MaxLimitExtra)

InitMerge ==
    /\ InitFixtures \/ InitQuota \/ InitBackfill
    /\ phase = "input"
    /\ merged = <<>> /\ self_merged = <<>> /\ once_merged = <<>> /\ news = <<>>
    /\ InitSelectIdle /\ InitRankIdle /\ InitLaterIdle

\* a call merge_and_dedupe_news_items(rss_items, x_items, limit)
Merge ==
    /\ phase = "input"
    /\ merged' = merge_and_dedupe_news_items(rss_items, x_items, limit)
    /\ phase' = "merged"
    /\ UNCHANGED <<rss_items, x_items, limit, self_merged, once_merged, news>>
    /\ UNCHANGED <<selectVars, rankVars, laterVars>>

\* the calls merge(L, L, limit) and merge(L, [], limit) for L = rss_items + x_items
MergeSelf ==
    /\ phase = "input"
    /\ LET L == rss_items \o x_items
       IN  /\ self_merged' = merge_and_dedupe_news_items(L, L, limit)
           /\ once_merged' = merge_and_dedupe_news_items(L, <<>>, limit)
    /\ phase' = "self"
    /\ UNCHANGED <<rss_items, x_items, limit, merged, news>>
    /\ UNCHANGED <<selectVars, rankVars, laterVars>>

\* a call fetch_news_feeds() when the feeds yield rss_items and the social
\* source yields x_items; both of its merges run with limit=25
FetchNewsFeeds ==
    /\ phase = "input" /\ limit = NEWS_LIMIT
    /\ news' = fetch_news_feeds(rss_items, x_items)
    /\ phase' = "fetched"
    /\ UNCHANGED <<rss_items, x_items, limit, merged, self_merged, once_merged>>
    /\ UNCHANGED <<selectVars, rankVars, laterVars>>

NextMerge == Merge \/ MergeSelf \/ FetchNewsFeeds

SpecMerge == InitMerge /\ [][NextMerge]_vars

(***************************************************************************)
(* Reply parser: extract_ranked_ids.                                       *)
(***************************************************************************)
DigitSet == {Digits[i] : i \in 1..10}
DigitValue == [c \in DigitSet |-> (CHOOSE i \in 1..10 : Digits[i] = c) - 1]

\* int(tok) for a run of digits
RECURSIVE IntOf(_, _, _)
IntOf(tok, i, acc) ==
    IF i > Len(tok) THEN acc ELSE IntOf(tok, i + 1, acc * 10 + DigitValue[tok[i]])

\* re.findall(r"\d+", text), each match converted by int(): the maximal runs
\* of digits, left to right
RECURSIVE DigitRuns(_, _, _, _)
DigitRuns(s, i, run, acc) ==
    IF i > Len(s)
    THEN IF run = <<>> THEN acc ELSE Append(acc, IntOf(run, 1, 0))
    ELSE IF s[i] \in DigitSet
         THEN DigitRuns(s, i + 1, Append(run, s[i]), acc)
         ELSE DigitRuns(s, i + 1, <<>>,
                        IF run = <<>> THEN acc ELSE Append(acc, IntOf(run, 1, 0)))

NumericTokens(s) == DigitRuns(s, 1, <<>>, <<>>)

\* the loop `for tok in re.findall(...)` with its break
RECURSIVE ExtractLoop(_, _, _, _, _)
ExtractLoop(toks, i, acc, count, index) ==
    IF i > Len(toks) THEN acc
    ELSE LET idx == toks[i]
         IN  IF 1 <= idx /\ idx <= index /\ ~ \E k \in 1..Len(acc) : acc[k] = idx
             THEN LET acc2 == Append(acc, idx)
                  IN  IF Len(acc2) >= count THEN acc2
                      ELSE ExtractLoop(toks, i + 1, acc2, count, index)
             ELSE ExtractLoop(toks, i + 1, acc, count, index)

\* extract_ranked_ids(text, max_count, max_index)
extract_ranked_ids(txt, count, index) ==
    IF txt = <<>> THEN <<>>
    ELSE ExtractLoop(NumericTokens(txt), 1, <<>>, count, index)

(***************************************************************************)
(* Market selector: llm_rank_market_ids and select_markets_for_dashboard.  *)
(* The model call is an input: whether ANTHROPIC_API_KEY is set, whether   *)
(* the request and the decoding of its response succeeded, and the text of *)
(* the reply.                                                              *)
(***************************************************************************)
\* llm_rank_market_ids(markets, max_keep)
llm_rank_market_ids(pool, keep, has_key, call_ok, content) ==
    IF ~has_key \/ pool = <<>> THEN <<>>
    ELSE IF ~call_ok THEN <<>>
    ELSE extract_ranked_ids(content, keep, Len(pool))

\* the loop `for one_based in ranked_ids`; done tells that it returned
RECURSIVE RankedLoop(_, _, _, _, _, _)
RankedLoop(pool, ids, i, sel, used, keep) ==
    IF i > Len(ids) THEN [sel |-> sel, used |-> used, done |-> FALSE]
    ELSE LET idx == ids[i] - 1
         IN  IF 0 <= idx /\ idx < Len(pool) /\ idx \notin used
             THEN LET sel2 == Append(sel, pool[idx + 1])
                  IN  IF Len(sel2) >= keep
                      THEN [sel |-> sel2, used |-> used \cup {idx}, done |-> TRUE]
                      ELSE RankedLoop(pool, ids, i + 1, sel2, used \cup {idx}, keep)
             ELSE RankedLoop(pool, ids, i + 1, sel, used, keep)

\* a faulty variant of FillLoop: a market already chosen is not skipped
RECURSIVE FillLoopNoSkip(_, _, _, _, _)
FillLoopNoSkip(pool, idx, sel, used, keep) ==
    IF idx >= Len(pool) THEN sel
    ELSE LET sel2 == Append(sel, pool[idx + 1])
         IN  IF Len(sel2) >= keep THEN sel2
             ELSE FillLoopNoSkip(pool, idx + 1, sel2, used, keep)

\* the loop `for idx, m in enumerate(candidate_pool)` with its break
RECURSIVE FillLoop(_, _, _, _, _)
FillLoop(pool, idx, sel, used, keep) ==
    IF idx >= Len(pool) THEN sel
    ELSE IF idx \in used THEN FillLoop(pool, idx + 1, sel, used, keep)
         ELSE LET sel2 == Append(sel, pool[idx + 1])
              IN  IF Len(sel2) >= keep THEN sel2
                  ELSE FillLoop(pool, idx + 1, sel2, used, keep)

\* markets[:20]
CandidatePool(mkts) == Take(mkts, CANDIDATE_POOL_SIZE)

\* select_markets_for_dashboard(markets, max_keep), given what
\* llm_rank_market_ids returned
SelectWithRanking(mkts, keep, ids) ==
    IF mkts = <<>> THEN <<>>
    ELSE LET pool == CandidatePool(mkts)
         IN  IF ids = <<>> THEN Take(pool, keep)
             ELSE LET r == RankedLoop(pool, ids, 1, <<>>, {}, keep)
                  IN  IF r.done THEN r.sel
                      ELSE FillLoop(pool, 0, r.sel, r.used, keep)

\* a market record; the list is ordered by volume, descending
Market(i) == [question |-> i, volume |-> 1000 - i]
MarketList(n) == [i \in 1..n |-> Market(i)]

ReplyChars == {"0", "1", "2", ","}
Replies == SeqsUpTo(ReplyChars, MaxReplyLen)

InitSelect ==
    /\ \E n \in 0..(CANDIDATE_POOL_SIZE + MaxMarketsExtra) : markets = MarketList(n)
    /\ max_keep \in 0..MaxKeep
    /\ reply = <<>> /\ ranked_ids = <<>> /\ selected = <<>>
    /\ sel_phase = "input"
    /\ InitMergeIdle /\ InitRankIdle /\ InitLaterIdle

\* select_markets_for_dashboard when ANTHROPIC_API_KEY is not set
SelectNoKey ==
    /\ sel_phase = "input"
    /\ ranked_ids' = llm_rank_market_ids(CandidatePool(markets), max_keep, FALSE, FALSE, <<>>)
    /\ selected' = SelectWithRanking(markets, max_keep, ranked_ids')
    /\ sel_phase' = "no_key"
    /\ UNCHANGED <<markets, max_keep, reply, mergeVars, rankVars, laterVars>>

\* select_markets_for_dashboard when the model request or its decoding raises
SelectLlmFailed ==
    /\ sel_phase = "input"
    /\ ranked_ids' = llm_rank_market_ids(CandidatePool(markets), max_keep, TRUE, FALSE, <<>>)
    /\ selected' = SelectWithRanking(markets, max_keep, ranked_ids')
    /\ sel_phase' = "failed"
    /\ UNCHANGED <<markets, max_keep, reply, mergeVars, rankVars, laterVars>>

\* select_markets_for_dashboard when the model replies with some text
SelectLlmReplied ==
    /\ sel_phase = "input"
    /\ reply' \in Replies
    /\ ranked_ids' = llm_rank_market_ids(CandidatePool(markets), max_keep, TRUE, TRUE, reply')
    /\ selected' = SelectWithRanking(markets, max_keep, ranked_ids')
    /\ sel_phase' = "replied"
    /\ UNCHANGED <<markets, max_keep, mergeVars, rankVars, laterVars>>

NextSelect == SelectNoKey \/ SelectLlmFailed \/ SelectLlmReplied

SpecSelect == InitSelect /\ [][NextSelect]_vars

\* the reply of the regression test: "3, 1, 3, 99, 2"
TestReply == <<"3", ",", " ", "1", ",", " ", "3", ",", " ", "9", "9", ",", " ", "2">>
RankChars == {"1", "2", "3", "9", ","}

InitRank ==
    /\ text \in SeqsUpTo(RankChars, MaxReplyLen) \cup {TestReply}
    /\ max_count \in 0..MaxCount
    /\ max_index \in 0..MaxIndex
    /\ ranked = <<>>
    /\ rank_phase = "input"
    /\ InitMergeIdle /\ InitSelectIdle /\ InitLaterIdle

\* a call extract_ranked_ids(text, max_count, max_index)
ExtractRankedIds ==
    /\ rank_phase = "input"
    /\ ranked' = extract_ranked_ids(text, max_count, max_index)
    /\ rank_phase' = "done"
    /\ UNCHANGED <<text, max_count, max_index, mergeVars, selectVars, laterVars>>

NextRank == ExtractRankedIds

SpecRank == InitRank /\ [][NextRank]_vars

(***************************************************************************)
(* Reranker of social items: parse_llm_relevant_indices and                *)
(* filter_x_items_with_llm.  The environment is an input: the API key, and *)
(* how the request ended (an HTTP error with its code, a network error,    *)
(* another failure, or a body).  A body is given by what json.loads makes  *)
(* of it: not JSON, JSON that is no object, or an object with its content  *)
(* blocks.  A result is a record: raised tells whether an exception left   *)
(* the function, requested whether the request was issued.                 *)
(***************************************************************************)
UpperOf == [c \in {LowerLetters[i] : i \in 1..26} |->
               UpperLetters[CHOOSE i \in 1..26 : LowerLetters[i] = c]]

\* str.upper()
Upper(s) == [i \in 1..Len(s) |-> IF s[i] \in DOMAIN UpperOf THEN UpperOf[s[i]] ELSE s[i]]

\* the characters str.strip() removes
Whitespace == {" ", "\n"}

RECURSIVE LStrip(_)
LStrip(s) == IF s # <<>> /\ Head(s) \in Whitespace THEN LStrip(Tail(s)) ELSE s

RECURSIVE RStrip(_)
RStrip(s) ==
    IF s # <<>> /\ s[Len(s)] \in Whitespace THEN RStrip(SubSeq(s, 1, Len(s) - 1)) ELSE s

\* str.strip()
Strip(s) == RStrip(LStrip(s))

\* str.split(","): the pieces between the commas, empty pieces included
RECURSIVE SplitComma(_, _, _, _)
SplitComma(s, i, piece, acc) ==
    IF i > Len(s) THEN Append(acc, piece)
    ELSE IF s[i] = "," THEN SplitComma(s, i + 1, <<>>, Append(acc, piece))
         ELSE SplitComma(s, i + 1, Append(piece, s[i]), acc)

\* SUPERSCRIPT TWO: str.isdigit() is true of it and int() rejects it
SuperTwo == "²"

\* str.isdigit()
IsDigit(tok) == tok # <<>> /\ \A i \in 1..Len(tok) : tok[i] \in DigitSet \cup {SuperTwo}

\* whether int(tok) returns, for a token that passed isdigit()
IntAccepts(tok) == \A i \in 1..Len(tok) : tok[i] \in DigitSet

\* the loop `for token in cleaned.split(",")`; int() raising ValueError ends it
RECURSIVE IndicesLoop(_, _, _, _)
IndicesLoop(tokens, i, indices, total_count) ==
    IF i > Len(tokens) THEN [raised |-> FALSE, indices |-> indices]
    ELSE LET token == Strip(tokens[i])
         IN  IF ~IsDigit(token) THEN IndicesLoop(tokens, i + 1, indices, total_count)
             ELSE IF ~IntAccepts(token) THEN [raised |-> TRUE, indices |-> <<>>]
             ELSE LET idx == IntOf(token, 1, 0) - 1
                  IN  IF 0 <= idx /\ idx < total_count
                         /\ ~ \E k \in 1..Len(indices) : indices[k] = idx
                      THEN IndicesLoop(tokens, i + 1, Append(indices, idx), total_count)
                      ELSE IndicesLoop(tokens, i + 1, indices, total_count)

NoneWord == <<"N", "O", "N", "E">>

\* parse_llm_relevant_indices(raw_text, total_count); indices count from 0
parse_llm_relevant_indices(raw_text, total_count) ==
    LET cleaned == Strip(raw_text)
    IN  IF cleaned = <<>> THEN [raised |-> FALSE, indices |-> <<>>]
        ELSE IF Upper(cleaned) = NoneWord THEN [raised |-> FALSE, indices |-> <<>>]
        ELSE IndicesLoop(SplitComma(cleaned, 1, <<>>, <<>>), 1, <<>>, total_count)

\* " ".join(block.get("text", "") for block in content_blocks if ... "text")
RECURSIVE JoinTexts(_, _, _, _)
JoinTexts(blocks, i, first, acc) ==
    IF i > Len(blocks) THEN acc
    ELSE IF Get(blocks[i], "type", "") = "text"
         THEN JoinTexts(blocks, i + 1, FALSE,
                        IF first THEN Get(blocks[i], "text", <<>>)
                        ELSE acc \o <<" ">> \o Get(blocks[i], "text", <<>>))
         ELSE JoinTexts(blocks, i + 1, first, acc)

\* llm_text of a decoded body
LlmText(body) == Strip(JoinTexts(Get(body, "content", <<>>), 1, TRUE, <<>>))

\* llm_meta["result"]: a tuple of the pieces of the tag
Tag(name) == <<name>>
HttpTag(code) == <<"http_", code, "_passthrough">>

\* a faulty variant of Passthrough: the tag is not set
PassthroughUntagged(items, meta, tag) ==
    [raised |-> FALSE, requested |-> TRUE, items |-> items, meta |-> meta]

\* `llm_meta["result"] = ...; return (items, llm_meta)` after the request
Passthrough(items, meta, tag) ==
    [raised |-> FALSE, requested |-> TRUE, items |-> items,
     meta |-> [meta EXCEPT !.result = tag]]

\* a faulty variant of AfterReply: NONE is passed through like any other text
AfterReplyNoneKept(items, meta, llm_text) ==
    LET parsed == parse_llm_relevant_indices(llm_text, Len(items))
    IN  IF parsed.raised THEN [raised |-> TRUE, requested |-> TRUE]
        ELSE IF parsed.indices = <<>>
        THEN Passthrough(items, meta, Tag("unparseable_passthrough"))
        ELSE LET filtered == [k \in 1..Len(parsed.indices) |-> items[parsed.indices[k] + 1]]
             IN  [raised |-> FALSE, requested |-> TRUE, items |-> filtered,
                  meta |-> [meta EXCEPT !.outputCount = Len(filtered),
                                        !.result = Tag("filtered_indices")]]

\* the part of filter_x_items_with_llm that follows the decoding of the body
AfterReply(items, meta, llm_text) ==
    LET parsed == parse_llm_relevant_indices(llm_text, Len(items))
    IN  IF parsed.raised THEN [raised |-> TRUE, requested |-> TRUE]
        ELSE IF parsed.indices = <<>> /\ Upper(llm_text) = NoneWord
        THEN [raised |-> FALSE, requested |-> TRUE, items |-> <<>>,
              meta |-> [meta EXCEPT !.outputCount = 0, !.result = Tag("filtered_none")]]
        ELSE IF parsed.indices = <<>>
        THEN Passthrough(items, meta, Tag("unparseable_passthrough"))
        ELSE LET filtered == [k \in 1..Len(parsed.indices) |-> items[parsed.indices[k] + 1]]
             IN  [raised |-> FALSE, requested |-> TRUE, items |-> filtered,
                  meta |-> [meta EXCEPT !.outputCount = Len(filtered),
                                        !.result = Tag("filtered_indices")]]

\* filter_x_items_with_llm(items, return_meta=True)
filter_x_items_with_llm(items, api_key, resp) ==
    LET llm_meta == [inputCount |-> Len(items), outputCount |-> Len(items),
                     llmEnabled |-> FALSE, llmApplied |-> FALSE, result |-> Tag("not_run")]
        applied == [llm_meta EXCEPT !.llmEnabled = TRUE, !.llmApplied = TRUE]
    IN  IF items = <<>>
        THEN [raised |-> FALSE, requested |-> FALSE, items |-> items,
              meta |-> [llm_meta EXCEPT !.result = Tag("no_items")]]
        ELSE IF Strip(api_key) = <<>>
        THEN [raised |-> FALSE, requested |-> FALSE, items |-> items,
              meta |-> [llm_meta EXCEPT !.result = Tag("no_api_key")]]
        ELSE IF resp.kind = "http_error"
        THEN Passthrough(items, [httpStatus |-> resp.code] @@ applied, HttpTag(resp.code))
        ELSE IF resp.kind = "url_error"
        THEN Passthrough(items, applied, Tag("network_error_passthrough"))
        ELSE IF resp.kind = "error"
        THEN Passthrough(items, applied, Tag("request_failed_passthrough"))
        ELSE IF ~resp.valid \/ ~resp.object
        THEN Passthrough(items, applied, Tag("parse_failed_passthrough"))
        ELSE AfterReply(items, applied, LlmText(resp))

\* content blocks of a reply
TextBlock(t) == [type |-> "text", text |-> t]
ToolBlock == [type |-> "tool_use"]

FilterChars == {"1", "2", "3", ",", " "}

\* reply texts: short texts over FilterChars, spellings of NONE, NONE beside
\* other text, and texts with a character that isdigit() accepts and int() rejects
NoneTexts == {NoneWord, <<"n", "o", "n", "e">>, <<"N", "o", "n", "e">>,
              <<" ", "N", "O", "N", "E", "\n">>}
MixedTexts == {<<"N", "O", "N", "E", ",", "1">>, <<"N", "O", "N", "E", ".">>,
               <<"N", "O">>, <<SuperTwo>>, <<"1", ",", SuperTwo>>}
ReplyTexts == SeqsUpTo(FilterChars, MaxReplyLen) \cup NoneTexts \cup MixedTexts

\* decoded bodies: an object with one text block, with several blocks, with
\* no content, and bodies that are no JSON object
Bodies ==
    {[kind |-> "body", valid |-> TRUE, object |-> TRUE, content |-> <<TextBlock(t)>>]
        : t \in ReplyTexts}
    \cup {[kind |-> "body", valid |-> TRUE, object |-> TRUE, content |-> c]
        : c \in {<<TextBlock(<<"N", "O">>), TextBlock(<<"N", "E">>)>>,
                 <<ToolBlock, TextBlock(NoneWord)>>,
                 <<TextBlock(<<"2">>), ToolBlock, TextBlock(<<",", "1">>)>>,
                 <<[type |-> "text"]>>}}
    \cup {[kind |-> "body", valid |-> TRUE, object |-> TRUE],
          [kind |-> "body", valid |-> TRUE, object |-> FALSE],
          [kind |-> "body", valid |-> FALSE, object |-> FALSE]}

HttpCodes == {401, 429, 500}

Failures == {[kind |-> "http_error", code |-> c] : c \in HttpCodes}
            \cup {[kind |-> "url_error"], [kind |-> "error"]}

ApiKeys == {<<>>, <<" ">>, <<"k">>}

InitFilter ==
    /\ \E n \in 0..MaxItems : cand_items = SocialList(n, 0)
    /\ anthropic_key \in ApiKeys
    /\ llm_response = [kind |-> "none"]
    /\ filter_result = [raised |-> FALSE]
    /\ filter_phase = "input"
    /\ InitFilterRestIdle

\* filter_x_items_with_llm returning before the request: no items, or no key
FilterNotRun ==
    /\ filter_phase = "input"
    /\ cand_items = <<>> \/ Strip(anthropic_key) = <<>>
    /\ filter_result' = filter_x_items_with_llm(cand_items, anthropic_key, llm_response)
    /\ filter_phase' = "not_run"
    /\ UNCHANGED <<cand_items, anthropic_key, llm_response>>
    /\ UNCHANGED filterRest

\* filter_x_items_with_llm when urlopen raises
FilterRequestFailed ==
    /\ filter_phase = "input"
    /\ cand_items # <<>> /\ Strip(anthropic_key) # <<>>
    /\ llm_response' \in Failures
    /\ filter_result' = filter_x_items_with_llm(cand_items, anthropic_key, llm_response')
    /\ filter_phase' = "failed"
    /\ UNCHANGED <<cand_items, anthropic_key>>
    /\ UNCHANGED filterRest

\* filter_x_items_with_llm when the request yields a body
FilterReplied ==
    /\ filter_phase = "input"
    /\ cand_items # <<>> /\ Strip(anthropic_key) # <<>>
    /\ llm_response' \in Bodies
    /\ filter_result' = filter_x_items_with_llm(cand_items, anthropic_key, llm_response')
    /\ filter_phase' = "replied"
    /\ UNCHANGED <<cand_items, anthropic_key>>
    /\ UNCHANGED filterRest

NextFilter == FilterNotRun \/ FilterRequestFailed \/ FilterReplied

SpecFilter == InitFilter /\ [][NextFilter]_vars

(***************************************************************************)
(* Social signal scorer: sanitize_x_text and is_high_signal_x_post.        *)
(* Instants are whole hours.  created_at is given by what normalize_date   *)
(* makes of it: a record with parses = FALSE for a value no format         *)
(* accepts, and with the instant otherwise; a post without the key has no  *)
(* such field.  Scores are held in hundredths, so 22 is 2200 and the       *)
(* weight 1.25 is 125.                                                     *)
(***************************************************************************)
X_ALLOWED_ACCOUNTS == <<
    <<"a", "u", "r", "o", "r", "a", "i", "n", "t", "e", "l">>,
    <<"s", "e", "n", "t", "d", "e", "f", "e", "n", "d", "e", "r">>,
    <<"i", "n", "t", "e", "l", "c", "r", "a", "b">>,
    <<"f", "a", "y", "t", "u", "k", "s">>,
    <<"l", "o", "a", "b", "o", "r", "i", "n", "g", "w", "a", "r">> >>

X_ACCOUNT_WEIGHTS ==
    [u \in {X_ALLOWED_ACCOUNTS[i] : i \in 1..Len(X_ALLOWED_ACCOUNTS)} |->
        IF u = X_ALLOWED_ACCOUNTS[1] THEN 125
        ELSE IF u = X_ALLOWED_ACCOUNTS[2] THEN 115
        ELSE IF u = X_ALLOWED_ACCOUNTS[3] THEN 105
        ELSE 100]

X_QUERY_KEYWORDS == <<
    <<"i", "r", "a", "n">>,
    <<"t", "e", "h", "r", "a", "n">>,
    <<"i", "r", "g", "c">>,
    <<"h", "o", "r", "m", "u", "z">>,
    <<"s", "t", "r", "a", "i", "t", " ", "o", "f", " ", "h", "o", "r", "m", "u", "z">>,
    <<"n", "u", "c", "l", "e", "a", "r">>,
    <<"h", "e", "z", "b", "o", "l", "l", "a", "h">>,
    <<"i", "s", "r", "a", "e", "l">>,
    <<"u", "s">> >>

X_MAX_ITEMS == 6
X_MAX_PER_ACCOUNT == 2
X_MAX_AGE_HOURS == 12
X_MIN_TEXT_LENGTH == 40
X_MIN_ENGAGEMENT == 12
X_MIN_SCORE == 22
DEFAULT_WEIGHT == 100

HttpScheme == <<"h", "t", "t", "p", ":", "/", "/">>
HttpsScheme == <<"h", "t", "t", "p", "s", ":", "/", "/">>

\* the index after the last character of a match of https?://\S+ that starts
\* at i, or 0 when none starts there
RECURSIVE NonSpaceEnd(_, _)
NonSpaceEnd(s, j) == IF j <= Len(s) /\ s[j] \notin Whitespace THEN NonSpaceEnd(s, j + 1) ELSE j

UrlEnd(s, i) ==
    LET body == IF s[i] # Head(HttpScheme) THEN 0
                ELSE IF StartsWith(SubSeq(s, i, Len(s)), HttpsScheme) THEN i + Len(HttpsScheme)
                ELSE IF StartsWith(SubSeq(s, i, Len(s)), HttpScheme) THEN i + Len(HttpScheme)
                ELSE 0
    IN  IF body = 0 \/ body > Len(s) \/ s[body] \in Whitespace THEN 0
        ELSE NonSpaceEnd(s, body)

\* re.sub(r"https?://\S+", "", text)
RECURSIVE RemoveUrls(_, _, _)
RemoveUrls(s, i, acc) ==
    IF i > Len(s) THEN acc
    ELSE IF UrlEnd(s, i) # 0 THEN RemoveUrls(s, UrlEnd(s, i), acc)
         ELSE RemoveUrls(s, i + 1, Append(acc, s[i]))

\* re.sub(r"\s+", " ", sanitized)
RECURSIVE CollapseSpaces(_, _, _)
CollapseSpaces(s, i, acc) ==
    IF i > Len(s) THEN acc
    ELSE IF s[i] \in Whitespace
         THEN CollapseSpaces(s, i + 1,
                  IF i > 1 /\ s[i - 1] \in Whitespace THEN acc ELSE Append(acc, " "))
         ELSE CollapseSpaces(s, i + 1, Append(acc, s[i]))

\* sanitize_x_text(text)
sanitize_x_text(txt) ==
    IF txt = <<>> THEN <<>>
    ELSE Strip(CollapseSpaces(RemoveUrls(txt, 1, <<>>), 1, <<>>))

\* kw in text_lower
Contains(s, kw) ==
    \/ kw = <<>>
    \/ \E i \in 1..(Len(s) - Len(kw) + 1) : s[i] = kw[1] /\ SubSeq(s, i, i + Len(kw) - 1) = kw

\* sum(1 for kw in keywords if kw in text_lower)
KeywordHits(text_lower, keywords) ==
    Cardinality({k \in 1..Len(keywords) : Contains(text_lower, keywords[k])})

\* user_by_id = {str(user.get("id", "")): user for user in users}, then
\* user_by_id.get(str(post.get("author_id", "")), {}): the last user with the id
AuthorOf(post, users) ==
    LET hits == {k \in 1..Len(users) : Get(users[k], "id", <<>>) = Get(post, "author_id", <<>>)}
    IN  IF hits = {} THEN [none |-> TRUE]
        ELSE users[CHOOSE k \in hits : \A j \in hits : j <= k]

\* (author.get("username") or "").lower()
UsernameOf(post, users) == Lower(Get(AuthorOf(post, users), "username", <<>>))

InAllowList(username) == \E i \in 1..Len(X_ALLOWED_ACCOUNTS) : X_ALLOWED_ACCOUNTS[i] = username

\* what normalize_date(post.get("created_at")) yields: a post's created_at
\* field holds it, and a post without the field yields None like Unparseable
Unparseable == [parses |-> FALSE]
ParsedAt(h) == [parses |-> TRUE, instant |-> h]
CreatedAt(post) == Get(post, "created_at", Unparseable)

\* likes + (reposts * 2) + replies + quotes
Engagement(post) ==
    LET metrics == Get(post, "public_metrics", [empty |-> TRUE])
    IN  Get(metrics, "like_count", 0) + (Get(metrics, "retweet_count", 0) * 2)
        + Get(metrics, "reply_count", 0) + Get(metrics, "quote_count", 0)

Rejected == [accepted |-> FALSE, score |-> 0]

\* a faulty variant of EngagementGate: the engagement threshold is not tested
EngagementGateOpen(engagement) == TRUE

\* `if engagement < X_MIN_ENGAGEMENT: return False, 0.0` passes
EngagementGate(engagement) == engagement >= X_MIN_ENGAGEMENT

\* a faulty variant of AccountGate: every resolved handle is eligible
AccountGateOpen(username) == username # <<>>

\* `if username not in X_ALLOWED_ACCOUNTS: return False, 0.0` passes
AccountGate(username) == InAllowList(username)

\* a faulty variant of ScoreGate: the composite score is not tested
ScoreGateOpen(score) == TRUE

\* `if score < X_MIN_SCORE: return False, 0.0` passes; the score is in
\* hundredths
ScoreGate(score) == score >= X_MIN_SCORE * 100

\* is_high_signal_x_post(post, account_weights, keywords, user_by_id, now)
\* with user_by_id built from users
is_high_signal_x_post(post, account_weights, keywords, users, now) ==
    LET username == UsernameOf(post, users)
        cleaned_text == sanitize_x_text(Get(post, "text", <<>>))
        keyword_hits == KeywordHits(Lower(cleaned_text), keywords)
        iso_time == CreatedAt(post)
        engagement == Engagement(post)
        account_weight == Get(account_weights, username, DEFAULT_WEIGHT)
        score == (engagement * 100) + (keyword_hits * 400) + (account_weight * 5)
    IN  IF ~AccountGate(username) THEN Rejected
        ELSE IF Len(cleaned_text) < X_MIN_TEXT_LENGTH THEN Rejected
        ELSE IF keyword_hits = 0 THEN Rejected
        ELSE IF ~iso_time.parses THEN Rejected
        ELSE IF iso_time.instant < now - X_MAX_AGE_HOURS THEN Rejected
        ELSE IF ~EngagementGate(engagement) THEN Rejected
        ELSE IF ~ScoreGate(score) THEN Rejected
        ELSE [accepted |-> TRUE, score |-> score]

\* filler of a post's text
Filler == [i \in 1..X_MIN_TEXT_LENGTH |-> "z"]

\* texts: one keyword, two keywords, a keyword inside a longer word, none,
\* too short, and long only through a link
TextIran == <<"I", "r", "a", "n", " ">> \o Filler
TextTehranNuclear == <<"T", "e", "h", "r", "a", "n", " ", " ", "n", "u", "c", "l", "e", "a", "r", "\n">> \o Filler
TextRussia == <<"R", "u", "s", "s", "i", "a", " ">> \o Filler
TextNoKeyword == Filler \o <<" ", "z", "z">>
TextShort == <<"i", "r", "a", "n", " ", "i", "r", "g", "c">>
TextLink == <<"i", "r", "a", "n", " ", "h", "t", "t", "p", "s", ":", "/", "/", "t", ".", "c", "o", "/">> \o Filler
PostTexts == {TextIran, TextTehranNuclear, TextRussia, TextNoKeyword, TextShort, TextLink}

\* includes.users of a search payload: an allowed handle in mixed case, an
\* allowed handle of weight 1.0, a handle outside the list, an allowed handle
\* behind an "@", and a user without username
Users == <<[id |-> <<"1">>, username |-> <<"A", "u", "r", "o", "r", "a", "I", "n", "t", "e", "l">>],
           [id |-> <<"2">>, username |-> <<"f", "a", "y", "t", "u", "k", "s">>],
           [id |-> <<"3">>, username |-> <<"r", "a", "n", "d", "o", "m", "g", "u", "y">>],
           [id |-> <<"4">>, username |-> <<"@", "s", "e", "n", "t", "d", "e", "f", "e", "n", "d", "e", "r">>],
           [id |-> <<"5">>]>>
AuthorIds == {<<"1">>, <<"2">>, <<"3">>, <<"4">>, <<"5">>, <<"9">>}

\* the weights of the program, and weights that know only a handle outside
\* the list and favour it
WeightTables == {X_ACCOUNT_WEIGHTS,
                 [u \in {<<"r", "a", "n", "d", "o", "m", "g", "u", "y">>} |-> 1000]}

\* creation times: no field, a value no format accepts, an hour too old,
\* exactly at the age limit, and fresh
CreatedTimes(now) ==
    {Unparseable, ParsedAt(now - X_MAX_AGE_HOURS - 1), ParsedAt(now - X_MAX_AGE_HOURS),
     ParsedAt(now)}

Metrics ==
    {[like_count |-> l, retweet_count |-> r, reply_count |-> p, quote_count |-> q]
        : l \in 0..MaxLikes, r \in 0..MaxReposts, p \in 0..MaxReplies, q \in 0..MaxReplies}

\* posts of a search payload, with and without created_at
Posts(now) ==
    {[id |-> <<"7">>, author_id |-> a, text |-> t, created_at |-> c, public_metrics |-> m]
        : a \in AuthorIds, t \in PostTexts, c \in CreatedTimes(now), m \in Metrics}
    \cup {[id |-> <<"7">>, author_id |-> a, text |-> t, public_metrics |-> m]
        : a \in AuthorIds, t \in PostTexts, m \in Metrics}

InitScore ==
    /\ now_hour = NowHour
    /\ scored_post \in Posts(now_hour)
    /\ weights \in WeightTables
    /\ verdict = Rejected
    /\ score_phase = "input"
    /\ InitScoreRestIdle

\* a call is_high_signal_x_post(scored_post, weights, X_QUERY_KEYWORDS, user_by_id, now)
ScorePost ==
    /\ score_phase = "input"
    /\ verdict' = is_high_signal_x_post(scored_post, weights, X_QUERY_KEYWORDS, Users, now_hour)
    /\ score_phase' = "done"
    /\ UNCHANGED <<scored_post, weights, now_hour>>
    /\ UNCHANGED scoreRest

NextScore == ScorePost

SpecScore == InitScore /\ [][NextScore]_vars

(***************************************************************************)
(* Social fetch: normalize_x_post_to_news_item and fetch_x_source_items.   *)
(* The search payload is an input: what fetch_x_recent_search returned     *)
(* (an empty record when the request or its decoding failed).  The result  *)
(* is a record that also keeps the locals of the call: the verdict of the  *)
(* scorer on each post, the sorted candidates, the selection before the    *)
(* reranker, and the requests that were issued.                            *)
(***************************************************************************)
\* str(username).lstrip("@")
RECURSIVE LStripAt(_)
LStripAt(s) == IF s # <<>> /\ Head(s) = "@" THEN LStripAt(Tail(s)) ELSE s

StatusPath == <<"/", "s", "t", "a", "t", "u", "s", "/">>
Ellipsis == <<".", ".", ".">>

\* cleaned if len(cleaned) <= n else cleaned[:n - 3] + "..."
Shorten(cleaned, n) == IF Len(cleaned) <= n THEN cleaned ELSE Take(cleaned, n - 3) \o Ellipsis

\* normalize_x_post_to_news_item(post, user_by_id), for a post whose
\* created_at parses and whose id and author's username are not empty
normalize_x_post_to_news_item(post, users) ==
    LET username == LStripAt(Get(AuthorOf(post, users), "username", <<>>))
        tweet_id == Strip(Get(post, "id", <<>>))
        cleaned == sanitize_x_text(Get(post, "text", <<>>))
    IN  [id |-> <<"x", "-">> \o tweet_id,
         type |-> "osint",
         tag |-> "osint",
         source |-> AtSign \o username,
         title |-> Shorten(cleaned, 160),
         excerpt |-> Shorten(cleaned, 180),
         url |-> XUrlPrefix \o username \o StatusPath \o tweet_id,
         time |-> CreatedAt(post).instant,
         timestamp |-> CreatedAt(post).instant]

\* the loop `for post in posts` of fetch_x_source_items: the verdicts
Verdicts(posts, users, now) ==
    [k \in 1..Len(posts) |->
        is_high_signal_x_post(posts[k], X_ACCOUNT_WEIGHTS, X_QUERY_KEYWORDS, users, now)]

\* the loop `for post in posts` of fetch_x_source_items: the candidates
RECURSIVE CandidatesFrom(_, _, _, _, _)
CandidatesFrom(posts, users, verdicts, k, acc) ==
    IF k > Len(posts) THEN acc
    ELSE IF ~verdicts[k].accepted \/ UsernameOf(posts[k], users) = <<>>
         THEN CandidatesFrom(posts, users, verdicts, k + 1, acc)
         ELSE CandidatesFrom(posts, users, verdicts, k + 1,
                  Append(acc, [score |-> verdicts[k].score,
                               username |-> UsernameOf(posts[k], users),
                               item |-> normalize_x_post_to_news_item(posts[k], users)]))

\* the sort key (item[0], item[2].get("time", "")) compared as tuples
KeyGreater(a, b) ==
    \/ a.score > b.score
    \/ a.score = b.score /\ TimeKey(a.item) > TimeKey(b.item)

\* candidates.sort(key=..., reverse=True): stable, greatest key first
RECURSIVE SortCandidates(_, _, _)
SortCandidates(cands, k, acc) ==
    IF k > Len(cands) THEN acc
    ELSE LET c == cands[k]
             before == {j \in 1..Len(acc) : ~KeyGreater(c, acc[j])}
             pos == Cardinality(before)
         IN  SortCandidates(cands, k + 1,
                 SubSeq(acc, 1, pos) \o <<c>> \o SubSeq(acc, pos + 1, Len(acc)))

AccountCount(sel, username) == Cardinality({j \in 1..Len(sel) : sel[j].username = username})

\* the loop `for score, username, item in candidates` with its continue and
\* break; sel holds the chosen candidates
RECURSIVE SelectWalk(_, _, _)
SelectWalk(cands, k, sel) ==
    IF k > Len(cands) THEN sel
    ELSE IF AccountCount(sel, cands[k].username) >= X_MAX_PER_ACCOUNT
         THEN SelectWalk(cands, k + 1, sel)
         ELSE LET sel2 == Append(sel, cands[k])
              IN  IF Len(sel2) >= X_MAX_ITEMS THEN sel2 ELSE SelectWalk(cands, k + 1, sel2)

\* a faulty variant of SelectLoop: a skipped candidate uses up a slot, so
\* the walk ends after X_MAX_ITEMS candidates
SelectLoopSlotUsed(cands, k, sel) == SelectWalk(Take(cands, X_MAX_ITEMS), k, sel)

\* the selection loop of fetch_x_source_items from candidate k on
SelectLoop(cands, k, sel) == SelectWalk(cands, k, sel)

ItemsOf(cands) == [j \in 1..Len(cands) |-> cands[j].item]

\* the debug record at the start of fetch_x_source_items
InitialDebug ==
    [xEnabled |-> FALSE, xFetched |-> 0, xUsers |-> 0, xPassedScore |-> 0,
     xSelectedBeforeLlm |-> 0, xAfterLlm |-> 0, xDroppedByLlm |-> 0,
     xLlm |-> [result |-> Tag("not_run")], xStatus |-> "not_run"]

NoLocals == [verdicts |-> <<>>, candidates |-> <<>>, selected |-> <<>>]

\* a faulty variant of TokenOf: the token is not stripped
TokenUnstripped(token) == token

\* os.getenv(X_BEARER_TOKEN_ENV, "").strip()
TokenOf(token) == Strip(token)

\* fetch_x_source_items up to the call of the reranker: the early returns, or
\* the locals with which the call goes on
FetchSelection(token, payload, now) ==
    LET posts == Get(payload, "data", <<>>)
        users == Get(Get(payload, "includes", [empty |-> TRUE]), "users", <<>>)
        enabled == [InitialDebug EXCEPT !.xEnabled = TRUE, !.xFetched = Len(posts),
                                        !.xUsers = Len(users)]
        verdicts == Verdicts(posts, users, now)
        candidates == SortCandidates(CandidatesFrom(posts, users, verdicts, 1, <<>>), 1, <<>>)
        chosen == SelectLoop(candidates, 1, <<>>)
    IN  IF TokenOf(token) = <<>>
        THEN [ended |-> TRUE, raised |-> FALSE, items |-> <<>>, requests |-> <<>>,
              debug |-> [InitialDebug EXCEPT !.xStatus = "no_x_token"]] @@ NoLocals
        ELSE IF posts = <<>> \/ users = <<>>
        THEN [ended |-> TRUE, raised |-> FALSE, items |-> <<>>, requests |-> <<"search">>,
              debug |-> [enabled EXCEPT !.xStatus = "no_posts_or_users"]] @@ NoLocals
        ELSE [ended |-> FALSE, raised |-> FALSE, items |-> <<>>, requests |-> <<"search">>,
              debug |-> [enabled EXCEPT
                  !.xPassedScore = Cardinality({k \in 1..Len(posts) : verdicts[k].accepted}),
                  !.xSelectedBeforeLlm = Len(chosen)],
              verdicts |-> verdicts, candidates |-> candidates, selected |-> chosen]

\* the rest of fetch_x_source_items: the reranker and the last debug fields
FetchRerank(stage, api_key, resp) ==
    LET llm == filter_x_items_with_llm(ItemsOf(stage.selected), api_key, resp)
        requests == IF llm.requested THEN <<"search", "rerank">> ELSE <<"search">>
    IN  IF llm.raised
        THEN [stage EXCEPT !.ended = TRUE, !.raised = TRUE, !.requests = requests]
        ELSE [stage EXCEPT
                  !.ended = TRUE, !.items = llm.items, !.requests = requests,
                  !.debug = [stage.debug EXCEPT
                      !.xLlm = llm.meta,
                      !.xAfterLlm = Len(llm.items),
                      !.xDroppedByLlm = Len(stage.selected) - Len(llm.items),
                      !.xStatus = "ok"]]

\* fetch_x_source_items(now, return_debug=True)
fetch_x_source_items(token, payload, now, api_key, resp) ==
    LET stage == FetchSelection(token, payload, now)
    IN  IF stage.ended THEN stage ELSE FetchRerank(stage, api_key, resp)

\* int -> decimal digits, as str() of a non-negative int
RECURSIVE Decimal(_)
Decimal(n) == IF n < 10 THEN <<Digits[n + 1]>> ELSE Decimal(n \div 10) \o <<Digits[(n % 10) + 1]>>

HighMetrics == [like_count |-> 20, retweet_count |-> 1, reply_count |-> 0, quote_count |-> 0]
LowMetrics == [like_count |-> 3, retweet_count |-> 0, reply_count |-> 0, quote_count |-> 0]

\* posts of the mixed family: any author, high or low engagement, all fresh
\* and on topic
MixedPosts(now) ==
    {[id |-> <<"7">> \o a, author_id |-> a, text |-> TextIran, created_at |-> ParsedAt(now),
      public_metrics |-> m]
        : a \in AuthorIds, m \in {HighMetrics, LowMetrics}}

MixedPayloads(now) ==
    {[data |-> posts, includes |-> [users |-> Users]] : posts \in SeqsUpTo(MixedPosts(now), MaxPosts)}
    \cup {[empty |-> TRUE], [data |-> <<>>], [data |-> <<[id |-> <<"7">>]>>],
          [data |-> <<[id |-> <<"7">>]>>, includes |-> [tweets |-> <<>>]]}

\* the users of the allowed accounts, ids "1" to "5"
AllowedUsers == [a \in 1..Len(X_ALLOWED_ACCOUNTS) |->
                    [id |-> Decimal(a), username |-> X_ALLOWED_ACCOUNTS[a]]]

\* post number k of account a in the busy family: acceptable, with likes and
\* age that vary with a and k
BusyPost(a, k, now) ==
    [id |-> Decimal((10 * a) + k), author_id |-> Decimal(a), text |-> TextIran,
     created_at |-> ParsedAt(now - (k % 2)),
     public_metrics |-> [like_count |-> 20 + ((a + k) % 3), retweet_count |-> 0,
                         reply_count |-> 0, quote_count |-> 0]]

RECURSIVE BusyPosts(_, _, _)
BusyPosts(counts, a, now) ==
    IF a > Len(counts) THEN <<>>
    ELSE [k \in 1..counts[a] |-> BusyPost(a, k, now)] \o BusyPosts(counts, a + 1, now)

\* one account more than it takes to fill the selection
BusyAccounts == (X_MAX_ITEMS \div X_MAX_PER_ACCOUNT) + 1

\* payloads of the busy family: counts[a] acceptable posts of account a
BusyPayloads(now) ==
    {[data |-> BusyPosts(counts, 1, now), includes |-> [users |-> AllowedUsers]]
        : counts \in [1..BusyAccounts -> 0..MaxPerAuthor]}

Tokens == {<<>>, <<" ">>, <<"t">>}

Body(t) == [kind |-> "body", valid |-> TRUE, object |-> TRUE, content |-> <<TextBlock(t)>>]

\* how the reranker request of a fetch ends
FetchResponses ==
    {[kind |-> "url_error"], Body(NoneWord), Body(<<"1">>), Body(<<"2", ",", "1">>),
     Body(<<SuperTwo>>)}

InitFetch ==
    /\ x_now = NowHour
    /\ x_token \in Tokens
    /\ x_payload \in MixedPayloads(x_now) \cup BusyPayloads(x_now)
    /\ x_llm_key = <<>>
    /\ x_llm_response = [kind |-> "none"]
    /\ x_fetch = [ended |-> FALSE]
    /\ x_phase = "input"
    /\ InitFetchRestIdle

\* fetch_x_source_items from its start to its early return, or to the point
\* where it calls the reranker
FetchSelect ==
    /\ x_phase = "input"
    /\ x_fetch' = FetchSelection(x_token, x_payload, x_now)
    /\ x_phase' = IF x_fetch'.ended THEN "done" ELSE "selected"
    /\ UNCHANGED <<x_token, x_payload, x_now, x_llm_key, x_llm_response>>
    /\ UNCHANGED fetchRest

\* the rest of fetch_x_source_items when the reranker returns before any
\* request: nothing selected, or no API key
FetchRerankNotRun ==
    /\ x_phase = "selected"
    /\ x_llm_key' \in ApiKeys
    /\ x_fetch.selected = <<>> \/ Strip(x_llm_key') = <<>>
    /\ x_fetch' = FetchRerank(x_fetch, x_llm_key', x_llm_response)
    /\ x_phase' = "done"
    /\ UNCHANGED <<x_token, x_payload, x_now, x_llm_response>>
    /\ UNCHANGED fetchRest

\* the rest of fetch_x_source_items when the reranker issues its request
FetchRerankRun ==
    /\ x_phase = "selected"
    /\ x_llm_key' \in ApiKeys
    /\ x_fetch.selected # <<>> /\ Strip(x_llm_key') # <<>>
    /\ x_llm_response' \in FetchResponses
    /\ x_fetch' = FetchRerank(x_fetch, x_llm_key', x_llm_response')
    /\ x_phase' = "done"
    /\ UNCHANGED <<x_token, x_payload, x_now>>
    /\ UNCHANGED fetchRest

NextFetch == FetchSelect \/ FetchRerankNotRun \/ FetchRerankRun

SpecFetch == InitFetch /\ [][NextFetch]_vars

(***************************************************************************)
(* Price history reconciler: build_odds_history.  Probabilities and y      *)
(* values are held in tenths of a percent (round(x, 1) keeps one decimal), *)
(* instants in hours.  The environment is an input: for each market what   *)
(* fetch_price_history would return, and the draws of random.uniform.  A   *)
(* market record always has the key _clobTokenId; its value None is the    *)
(* empty string here, both being false in `if token_id`.                   *)
(***************************************************************************)
Tenths == 10
TOP_MARKETS == 6
SYNTH_STEPS == 14
STEP_HOURS == 6
NOISE_MAX == 3
MIN_Y == 1
MAX_Y == 99
DEFAULT_PROB == 50

YesLabel == <<"Y", "e", "s">>

\* a faulty variant of YesOrFirst: the first outcome whatever its label
FirstOutcome(outcomes, field, default) ==
    IF outcomes # <<>> THEN outcomes[1][field] ELSE default

\* next((o[field] for o in m["outcomes"] if o["label"] == "Yes"),
\*      m["outcomes"][0][field] if m["outcomes"] else default)
YesOrFirst(outcomes, field, default) ==
    LET yes == {k \in 1..Len(outcomes) : outcomes[k].label = YesLabel}
    IN  IF yes # {} THEN outcomes[CHOOSE k \in yes : \A j \in yes : k <= j][field]
        ELSE IF outcomes # <<>> THEN outcomes[1][field]
        ELSE default

\* round(n / d, 0) for n >= 0, ties to the even neighbour
RoundHalfEven(n, d) ==
    LET q == n \div d
        r == n % d
    IN  IF 2 * r < d THEN q
        ELSE IF 2 * r > d THEN q + 1
        ELSE IF q % 2 = 0 THEN q ELSE q + 1

\* a faulty variant of Clamp: the value is not clamped
ClampOff(n, lo, hi) == n

\* max(lo, min(hi, n))
Clamp(n, lo, hi) == Max(lo, Min(hi, n))

\* a faulty variant of SynthPoint: the points are one hour apart
SynthPointHourly(i, yes_prob, u, now) ==
    LET val == Clamp((SYNTH_STEPS * yes_prob) + (u * i),
                     SYNTH_STEPS * MIN_Y * Tenths, SYNTH_STEPS * MAX_Y * Tenths)
    IN  [t |-> now - i, y |-> RoundHalfEven(val, SYNTH_STEPS)]

\* the point appended for step i: u is the draw of random.uniform(-3, 3) in
\* tenths, so yes_prob + u * (i / 14) is (14 * yes_prob + u * i) / 14
SynthPoint(i, yes_prob, u, now) ==
    LET val == Clamp((SYNTH_STEPS * yes_prob) + (u * i),
                     SYNTH_STEPS * MIN_Y * Tenths, SYNTH_STEPS * MAX_Y * Tenths)
    IN  [t |-> now - (i * STEP_HOURS), y |-> RoundHalfEven(val, SYNTH_STEPS)]

\* a faulty variant of Anchor: the last point keeps its clamped value
AnchorSkipped(pts, yes_prob) == pts

\* history_pts[-1]["y"] = yes_prob
Anchor(pts, yes_prob) == [pts EXCEPT ![Len(pts)].y = yes_prob]

\* the fallback series: `for i in range(14, -1, -1)` and the anchor
Synthesize(yes_prob, draws, now) ==
    Anchor([k \in 1..(SYNTH_STEPS + 1) |->
               SynthPoint(SYNTH_STEPS + 1 - k, yes_prob, draws[SYNTH_STEPS + 1 - k], now)],
           yes_prob)

\* the series of one market: the fetched one when there is a token and the
\* fetch yielded points, the synthesized one otherwise
SeriesOf(m, fetched, draws, now) ==
    LET history_pts == IF m._clobTokenId # <<>> THEN fetched ELSE <<>>
    IN  IF history_pts # <<>> THEN history_pts
        ELSE Synthesize(YesOrFirst(m.outcomes, "probability", DEFAULT_PROB * Tenths),
                        draws, now)

\* the loop `for m in top_markets`; a later market with the same question
\* replaces the entry of an earlier one
RECURSIVE HistoryLoop(_, _, _, _, _, _)
HistoryLoop(top, i, fetches, draws, now, history) ==
    IF i > Len(top) THEN history
    ELSE LET m == top[i]
             entry == [label |-> YesOrFirst(m.outcomes, "label", YesLabel),
                       points |-> SeriesOf(m, fetches[i], draws[i], now)]
         IN  HistoryLoop(top, i + 1, fetches, draws, now, (m.question :> entry) @@ history)

\* m.pop("_clobTokenId", None)
PopToken(m) == [k \in DOMAIN m \ {"_clobTokenId"} |-> m[k]]

\* a faulty variant of CleanUp: only the markets with a series are cleaned
CleanUpTopOnly(mkts) ==
    [i \in 1..Len(mkts) |-> IF i <= TOP_MARKETS THEN PopToken(mkts[i]) ELSE mkts[i]]

\* `for m in markets: m.pop("_clobTokenId", None)`
CleanUp(mkts) == [i \in 1..Len(mkts) |-> PopToken(mkts[i])]

\* build_odds_history(markets): the returned mapping, and the market records
\* as the call leaves them
build_odds_history(mkts, fetches, draws, now) ==
    [history |-> HistoryLoop(Take(mkts, TOP_MARKETS), 1, fetches, draws, now, <<>>),
     markets |-> CleanUp(mkts)]

\* every probability an outcome may carry: 0.0 to 100.0
Probabilities == 0..(100 * Tenths)

\* outcomes with a "Yes" that is not the first, without a "Yes", and none
YesSecond(p) == <<[label |-> <<"N", "o">>, probability |-> (100 * Tenths) - p, active |-> TRUE],
                  [label |-> YesLabel, probability |-> p, active |-> TRUE]>>
NoYes(p) == <<[label |-> <<"J", "u", "n", "e">>, probability |-> p, active |-> TRUE],
              [label |-> <<"J", "u", "l", "y">>, probability |-> (100 * Tenths) - p, active |-> TRUE]>>

HistMarket(q, outcomes, token) ==
    [question |-> q, outcomes |-> outcomes, volume |-> 1000 - q, status |-> "active",
     _clobTokenId |-> token]

TokenId == <<"7", "1">>

\* a fetched series, with values outside [1, 99]
RealSeries(now) == <<[t |-> now - 4, y |-> 4], [t |-> now - 2, y |-> 505], [t |-> now, y |-> 998]>>

\* the draws of random.uniform(-3, 3), in tenths
DrawValues == {(NOISE_MAX * Tenths * k) \div NoiseSteps : k \in (0 - NoiseSteps)..NoiseSteps}

\* the draws of one series: the same value at every step, or alternating signs
DrawVectors ==
    {[i \in 0..SYNTH_STEPS |-> d] : d \in DrawValues}
    \cup {[i \in 0..SYNTH_STEPS |-> IF i % 2 = 0 THEN d ELSE 0 - d] : d \in DrawValues}

\* a market without token, and a market whose fetch yields nothing
SynthCases(now) == {[token |-> <<>>, fetched |-> RealSeries(now)],
                    [token |-> TokenId, fetched |-> <<>>]}

\* the three ways of a market: no token, a token with a fetched series, a
\* token whose fetch yields nothing
Ways(now) == SynthCases(now) \cup {[token |-> TokenId, fetched |-> RealSeries(now)]}

\* market i of a list: its outcomes vary with i
ListedOutcomes(i) ==
    IF i % 3 = 0 THEN <<>> ELSE IF i % 3 = 1 THEN YesSecond(i * Tenths) ELSE NoYes(i * Tenths)

\* one market with every probability and every draw vector
InitHistOne ==
    /\ \E p \in Probabilities : \E o \in {YesSecond(p), NoYes(p)} : \E c \in SynthCases(hist_now) :
          /\ hist_markets = <<HistMarket(1, o, c.token)>>
          /\ hist_fetches = <<c.fetched>>
    /\ \E v \in DrawVectors : noise_draws = <<v>>

\* up to MaxHistMarkets markets, each in one of the three ways
InitHistList ==
    /\ \E n \in 0..MaxHistMarkets : \E ways \in [1..n -> Ways(hist_now)] :
          /\ hist_markets = [i \in 1..n |-> HistMarket(i, ListedOutcomes(i), ways[i].token)]
          /\ hist_fetches = [i \in 1..n |-> ways[i].fetched]
          /\ noise_draws = [i \in 1..n |-> [k \in 0..SYNTH_STEPS |-> NOISE_MAX * Tenths]]

InitHist ==
    /\ hist_now = NowHour * STEP_HOURS
    /\ InitHistOne \/ InitHistList
    /\ odds_history = <<>>
    /\ markets_out = hist_markets
    /\ hist_phase = "input"
    /\ InitHistRestIdle

\* a call build_odds_history(markets_out)
BuildOddsHistory ==
    /\ hist_phase = "input"
    /\ LET built == build_odds_history(hist_markets, hist_fetches, noise_draws, hist_now)
       IN  /\ odds_history' = built.history
           /\ markets_out' = built.markets
    /\ hist_phase' = "done"
    /\ UNCHANGED <<hist_markets, hist_fetches, noise_draws, hist_now>>
    /\ UNCHANGED histRest

NextHist == BuildOddsHistory

SpecHist == InitHist /\ [][NextHist]_vars

(***************************************************************************)
(* Market fetcher: is_relevant_market_title and fetch_polymarket.          *)
(* Volumes are whole dollars, prices are ten-thousandths, probabilities    *)
(* are tenths of a percent.                                                *)
(***************************************************************************)
IRAN_KEYWORDS == <<
    <<"i", "r", "a", "n">>,
    <<"t", "e", "h", "r", "a", "n">>,
    <<"i", "r", "g", "c">>,
    <<"k", "h", "a", "m", "e", "n", "e", "i">>,
    <<"h", "o", "r", "m", "u", "z">>,
    <<"h", "e", "z", "b", "o", "l", "l", "a", "h">>,
    <<"p", "e", "r", "s", "i", "a", "n", " ", "g", "u", "l", "f">>,
    <<"n", "u", "c", "l", "e", "a", "r">>,
    <<"n", "a", "t", "a", "n", "z">>,
    <<"f", "o", "r", "d", "o", "w">>,
    <<"m", "i", "d", "d", "l", "e", " ", "e", "a", "s", "t", " ", "s", "t", "r", "i", "k", "e">>,
    <<"h", "o", "u", "t", "h", "i">>,
    <<"s", "t", "r", "a", "i", "t">>,
    <<"r", "e", "g", "i", "m", "e", " ", "c", "h", "a", "n", "g", "e">>,
    <<"i", "s", "f", "a", "h", "a", "n">>,
    <<"k", "a", "r", "a", "j">>,
    <<"p", "a", "r", "c", "h", "i", "n">>,
    <<"q", "o", "m">>,
    <<"a", "r", "a", "b", "i", "a", "n", " ", "s", "e", "a">>,
    <<"r", "e", "d", " ", "s", "e", "a">>,
    <<"i", "r", "a", "n", " ", "w", "a", "r">>,
    <<"i", "r", "a", "n", " ", "c", "o", "n", "f", "l", "i", "c", "t">>,
    <<"i", "r", "a", "n", " ", "u", "s">>,
    <<"i", "r", "a", "n", " ", "i", "s", "r", "a", "e", "l">>,
    <<"i", "r", "a", "n", " ", "a", "t", "t", "a", "c", "k">>,
    <<"e", "p", "i", "c", " ", "f", "u", "r", "y">>,
    <<"l", "i", "o", "n", "'", "s", " ", "r", "o", "a", "r">>,
    <<"i", "r", "a", "n", "i", "a", "n", " ", "r", "e", "g", "i", "m", "e">>,
    <<"i", "r", "a", "n", "i", "a", "n", " ", "m", "i", "l", "i", "t", "a", "r", "y">>,
    <<"t", "e", "h", "r", "a", "n", " ", "s", "t", "r", "i", "k", "e">>,
    <<"i", "r", "a", "n", " ", "n", "u", "c", "l", "e", "a", "r">>,
    <<"c", "r", "u", "i", "s", "e", " ", "m", "i", "s", "s", "i", "l", "e", " ", "i", "r", "a", "n">>,
    <<"b", "a", "l", "l", "i", "s", "t", "i", "c", " ", "m", "i", "s", "s", "i", "l", "e", " ", "i", "r", "a", "n">>,
    <<"i", "r", "g", "c", " ", "q", "u", "d", "s">>,
    <<"h", "e", "z", "b", "o", "l", "l", "a", "h", " ", "a", "t", "t", "a", "c", "k">>,
    <<"s", "t", "r", "a", "i", "t", " ", "o", "f", " ", "h", "o", "r", "m", "u", "z">>,
    <<"p", "e", "r", "s", "i", "a", "n", " ", "g", "u", "l", "f", " ", "w", "a", "r">>,
    <<"i", "r", "a", "n", " ", "s", "a", "n", "c", "t", "i", "o", "n", "s">>,
    <<"i", "r", "a", "n", " ", "d", "e", "a", "l">>,
    <<"j", "c", "p", "o", "a">>,
    <<"e", "n", "r", "i", "c", "h", "m", "e", "n", "t">>,
    <<"c", "e", "n", "t", "r", "i", "f", "u", "g", "e">>,
    <<"r", "o", "u", "h", "a", "n", "i">>,
    <<"r", "a", "i", "s", "i">>,
    <<"p", "e", "z", "e", "s", "h", "k", "i", "a", "n">>,
    <<"i", "r", "a", "n", " ", "p", "r", "e", "s", "i", "d", "e", "n", "t">>,
    <<"r", "e", "v", "o", "l", "u", "t", "i", "o", "n", "a", "r", "y", " ", "g", "u", "a", "r", "d">>>>

\* IRRELEVANT_MARKET_TITLE_PATTERNS, as written in the source: the second
\* pattern is the three characters below followed by a question mark
PlaceholderDots == <<".", ".", ".", "?">>
PlaceholderEllipsis == <<"â", "€", "¦", "?">>
OverTemplate == <<"o", "v", "e", "r", "_", "_">>

\* the character class \w on lowered ASCII text
IsWordChar(c) == c \in LowerAlnumSet \cup {"_"} \cup UpperSet

\* re.search(r"\bover__\b", s)
MatchesOverTemplate(s) ==
    \E i \in 1..(Len(s) - Len(OverTemplate) + 1) :
        /\ SubSeq(s, i, i + Len(OverTemplate) - 1) = OverTemplate
        /\ i = 1 \/ ~IsWordChar(s[i - 1])
        /\ i + Len(OverTemplate) > Len(s) \/ ~IsWordChar(s[i + Len(OverTemplate)])

is_relevant_market_title(title) ==
    LET lowered == Lower(Strip(title))
    IN  /\ title # <<>>
        /\ lowered # <<>>
        /\ \E k \in 1..Len(IRAN_KEYWORDS) : Contains(lowered, IRAN_KEYWORDS[k])
        /\ ~Contains(lowered, PlaceholderDots)
        /\ ~Contains(lowered, PlaceholderEllipsis)
        /\ ~MatchesOverTemplate(lowered)

OUTCOME_LIMIT == 6
PRICE_SCALE == 10
MILLION == 1000000
THOUSAND == 1000
EventUrlPrefix == <<"h", "t", "t", "p", "s", ":", "/", "/", "p", "o", "l", "y", "m", "a", "r", "k", "e", "t", ".", "c", "o", "m", "/", "e", "v", "e", "n", "t", "/">>

\* m.get("closed", False)
IsClosed(m) == Get(m, "closed", FALSE)
NotClosed(m) == ~IsClosed(m)

\* the first id of clobTokenIds of the first active sub-market, else None
FirstTokenId(active) ==
    IF active = <<>> THEN <<>>
    ELSE LET raw_ids == Get(active[1], "clobTokenIds", [kind |-> "absent"])
         IN  IF raw_ids.kind = "list" /\ raw_ids.ids # <<>> THEN raw_ids.ids[1] ELSE <<>>

\* float(mkt.get("volume", 0) or 0) raises on text that is not a number
VolumeField(m) == Get(m, "volume", [num |-> TRUE, value |-> 0])
VolumeRaises(m) == ~VolumeField(m).num

\* the sum of float(mkt.get("volume", 0) or 0) over a list of sub-markets
RECURSIVE VolumeSum(_, _)
VolumeSum(mkts, i) ==
    IF i > Len(mkts) THEN 0
    ELSE (IF VolumeRaises(mkts[i]) THEN 0 ELSE VolumeField(mkts[i]).value) + VolumeSum(mkts, i + 1)

\* float(prices[0]) of outcomePrices, 0 when absent, empty or unparseable
YesPrice(m) ==
    LET price_str == Get(m, "outcomePrices", [kind |-> "absent"])
    IN  IF price_str.kind = "list" /\ price_str.prices # <<>> THEN price_str.prices[1] ELSE 0

\* the outcome of one active sub-market
OutcomeOf(m, title) ==
    [label |-> Get(m, "groupItemTitle", Get(m, "question", title)),
     probability |-> RoundHalfEven(YesPrice(m), PRICE_SCALE),
     active |-> TRUE]

\* f"${total_volume/1e6:.1f}M" or f"${total_volume/1e3:.0f}K"
VolumeFormatted(total_volume) ==
    IF total_volume >= MILLION
    THEN [unit |-> "M", tenths |-> RoundHalfEven(total_volume * Tenths, MILLION)]
    ELSE [unit |-> "K", units |-> RoundHalfEven(total_volume, THOUSAND)]

\* event.get("endDate") or event.get("endDateIso") or event.get("endDateISO")
ResolutionDate(event) ==
    IF Get(event, "endDate", <<>>) # <<>> THEN event.endDate
    ELSE IF Get(event, "endDateIso", <<>>) # <<>> THEN event.endDateIso
    ELSE Get(event, "endDateISO", <<>>)

\* total_volume: the active sub-markets that become outcomes, then the closed
TotalVolume(active, shown, closed) == VolumeSum(shown, 1) + VolumeSum(closed, 1)

\* the record is appended whatever its outcomes (faulty)
RetainedAlways(outcomes) == TRUE

\* if outcomes:
Retained(outcomes) == outcomes # <<>>

\* the body of the loop over the events, for one relevant event
EventRecord(event) ==
    LET title == Get(event, "title", <<>>)
        markets_list == Get(event, "markets", <<>>)
        active_mkts == SelectSeq(markets_list, NotClosed)
        shown == Take(active_mkts, OUTCOME_LIMIT)
        closed == SelectSeq(markets_list, IsClosed)
        total_volume == TotalVolume(active_mkts, shown, closed)
    IN  [raised |-> \E k \in 1..Len(shown \o closed) : VolumeRaises((shown \o closed)[k]),
         retained |-> Retained([k \in 1..Len(shown) |-> OutcomeOf(shown[k], title)]),
         record |-> [question |-> title,
                     resolutionDate |-> ResolutionDate(event),
                     volume |-> total_volume,
                     volumeFormatted |-> VolumeFormatted(total_volume),
                     outcomes |-> [k \in 1..Len(shown) |-> OutcomeOf(shown[k], title)],
                     status |-> "active",
                     source |-> "Polymarket",
                     url |-> EventUrlPrefix \o Get(event, "slug", <<>>),
                     _clobTokenId |-> FirstTokenId(active_mkts)]]

\* for event in events: an exception ends the loop with the records so far
RECURSIVE EventsLoop(_, _, _)
EventsLoop(events, i, found) ==
    IF i > Len(events) THEN found
    ELSE IF ~is_relevant_market_title(Get(events[i], "title", <<>>))
    THEN EventsLoop(events, i + 1, found)
    ELSE LET r == EventRecord(events[i])
         IN  IF r.raised THEN found
             ELSE IF r.retained THEN EventsLoop(events, i + 1, Append(found, r.record))
             ELSE EventsLoop(events, i + 1, found)

\* one step of markets.sort(key=lambda m: m["volume"], reverse=True)
InsertByVolume(acc, x) ==
    LET k == Cardinality({i \in 1..Len(acc) : acc[i].volume >= x.volume})
    IN  SubSeq(acc, 1, k) \o <<x>> \o SubSeq(acc, k + 1, Len(acc))

RECURSIVE SortByVolume(_, _, _)
SortByVolume(s, i, acc) ==
    IF i > Len(s) THEN acc ELSE SortByVolume(s, i + 1, InsertByVolume(acc, s[i]))

\* fetch_polymarket, for the response of the events endpoint
fetch_polymarket(response) ==
    IF response.kind # "events" THEN <<>>
    ELSE SortByVolume(EventsLoop(response.events, 1, <<>>), 1, <<>>)

\* titles: relevant, relevant in capitals with blanks around, a placeholder,
\* a malformed template, without keyword, blank, empty
Titles == {<<"I", "r", "a", "n", " ", "d", "e", "a", "l", "?">>,
           <<" ", "T", "E", "H", "R", "A", "N", " ">>,
           <<"I", "r", "a", "n", " ", "o", "n", ".", ".", ".", "?">>,
           <<"i", "r", "a", "n", " ", "o", "v", "e", "r", "_", "_">>,
           <<"C", "u", "p", "?">>,
           <<" ">>,
           <<>>}

Number(n) == [num |-> TRUE, value |-> n]
NotANumber == [num |-> FALSE]

\* a sub-market with all its fields; j is its place in the event
SubMarket(j, closed, volume) ==
    [closed |-> closed,
     groupItemTitle |-> <<"o">> \o Decimal(j),
     question |-> <<"q">> \o Decimal(j),
     volume |-> volume,
     outcomePrices |-> [kind |-> "list", prices |-> <<(1234 * j) % 10001, 10000 - ((1234 * j) % 10001)>>],
     clobTokenIds |-> [kind |-> "list", ids |-> <<<<"t">> \o Decimal(j), <<"n">> \o Decimal(j)>>]]

\* a sub-market with fields missing or unparseable
SparseSubMarket(j) ==
    IF j % 3 = 1
    THEN [question |-> <<"q">> \o Decimal(j), outcomePrices |-> [kind |-> "unparseable"],
          clobTokenIds |-> [kind |-> "unparseable"]]
    ELSE IF j % 3 = 2
    THEN [volume |-> Number(j), outcomePrices |-> [kind |-> "list", prices |-> <<>>],
          clobTokenIds |-> [kind |-> "list", ids |-> <<>>]]
    ELSE [closed |-> FALSE, volume |-> Number(MILLION), groupItemTitle |-> <<"o">> \o Decimal(j)]

Styles == {"plain", "closedFirst", "sparse", "textVolume"}

\* the sub-markets of an event with a active and c closed sub-markets
SubMarkets(a, c, style) ==
    IF style = "plain"
    THEN [j \in 1..(a + c) |-> SubMarket(j, j > a, Number(j))]
    ELSE IF style = "closedFirst"
    THEN [j \in 1..(a + c) |-> SubMarket(j, j <= c, Number(1))]
    ELSE IF style = "sparse"
    THEN [j \in 1..(a + c) |-> IF j > a THEN SubMarket(j, TRUE, Number(THOUSAND)) ELSE SparseSubMarket(j)]
    ELSE [j \in 1..(a + c) |-> SubMarket(j, j > a, IF j = a + c THEN NotANumber ELSE Number(j))]

Event(n, title, subs) ==
    [title |-> title, slug |-> <<"e", Digits[n + 1]>>, markets |-> subs,
     endDateIso |-> <<"2", "0", "2", "6">>]

\* an event without title, slug, sub-markets or date
BareEvent == [id |-> 0]

FixedEvent(n) ==
    Event(n, <<"I", "r", "a", "n", " ", "d", "e", "a", "l", "?">>, SubMarkets(2, 1, "plain"))

\* the events of a response: none, one, or one next to a fixed one
EventLists ==
    LET Varied(n) == {Event(n, t, SubMarkets(a, c, s)) :
                         t \in Titles, a \in 0..MaxActive, c \in 0..MaxClosed, s \in Styles}
                     \cup {BareEvent}
    IN  {<<>>}
        \cup {<<e>> : e \in Varied(1)}
        \cup {<<FixedEvent(1), e>> : e \in Varied(2)}
        \cup {<<e, FixedEvent(2)>> : e \in Varied(1)}

\* the outcomes of fetch_url and json.loads: events, no data, a body that
\* is not JSON
PolyResponses ==
    {[kind |-> "events", events |-> es] : es \in EventLists}
    \cup {[kind |-> "nodata"], [kind |-> "notjson"]}

InitPoly ==
    /\ poly_events \in PolyResponses
    /\ poly_markets = <<>>
    /\ poly_phase = "input"
    /\ InitPolyRestIdle

\* a call fetch_polymarket() that receives events
FetchPolymarket ==
    /\ poly_phase = "input"
    /\ poly_events.kind = "events"
    /\ poly_markets' = fetch_polymarket(poly_events)
    /\ poly_phase' = "done"
    /\ UNCHANGED poly_events
    /\ UNCHANGED polyRest

\* a call fetch_polymarket() that receives nothing it can read
FetchPolymarketFailed ==
    /\ poly_phase = "input"
    /\ poly_events.kind # "events"
    /\ poly_markets' = fetch_polymarket(poly_events)
    /\ poly_phase' = "done"
    /\ UNCHANGED poly_events
    /\ UNCHANGED polyRest

NextPoly == FetchPolymarket \/ FetchPolymarketFailed

SpecPoly == InitPoly /\ [][NextPoly]_vars

(***************************************************************************)
(* Feed fetcher: parse_rss, fetch_one_feed, fetch_rss_news_feeds and       *)
(* fetch_news_feeds over the worker pool.  A date field holds what         *)
(* normalize_date makes of it.                                             *)
(***************************************************************************)
MAX_FEED_ITEMS == 10
DESC_LEN == 200
EXCERPT_LEN == 180

\* the index after a match of <[^>]+> that starts at i, 0 when there is none
TagEnd(s, i) ==
    IF s[i] # "<" THEN 0
    ELSE LET closers == {j \in (i + 1)..Len(s) : s[j] = ">"}
         IN  IF closers = {} THEN 0
             ELSE LET j == CHOOSE c \in closers : \A k \in closers : c <= k
                  IN  IF j = i + 1 THEN 0 ELSE j + 1

\* the scan of re.sub(r"<[^>]+>", "", s) from index i
RECURSIVE StripTagsFrom(_, _, _)
StripTagsFrom(s, i, acc) ==
    IF i > Len(s) THEN acc
    ELSE IF TagEnd(s, i) # 0 THEN StripTagsFrom(s, TagEnd(s, i), acc)
         ELSE StripTagsFrom(s, i + 1, Append(acc, s[i]))

\* re.sub(r"<[^>]+>", "", s): text without "<" has no match
StripTags(s) ==
    IF \A i \in 1..Len(s) : s[i] # "<" THEN s ELSE StripTagsFrom(s, 1, <<>>)

\* title: <title>, else the Atom title
TitleOf(entry) ==
    LET t == Strip(Get(entry, "title", <<>>))
    IN  IF t # <<>> THEN t ELSE Strip(Get(entry, "atom_title", <<>>))

\* link: the text of <link>, else its href, else the href of the Atom link
LinkOf(entry) ==
    IF Strip(Get(entry, "link", <<>>)) # <<>> THEN Strip(entry.link)
    ELSE IF Get(entry, "href", <<>>) # <<>> THEN entry.href
    ELSE Get(entry, "atom_href", <<>>)

\* re.sub(r"<[^>]+>", "", d.text).strip()[:200]
CleanDesc(d) == Take(Strip(StripTags(d)), DESC_LEN)

\* desc: <description>, else the Atom summary
DescOf(entry) ==
    LET d == CleanDesc(Get(entry, "description", <<>>))
    IN  IF d # <<>> THEN d ELSE CleanDesc(Get(entry, "summary", <<>>))

\* pub_date: <pubDate>, else <updated>, else <published>, as normalize_date
\* takes it; no date is unparseable like text that no format accepts
PubDateOf(entry) ==
    IF "pubDate" \in DOMAIN entry THEN entry.pubDate
    ELSE IF "updated" \in DOMAIN entry THEN entry.updated
    ELSE Get(entry, "published", Unparseable)

\* a date near year 1 with an offset: astimezone raises OverflowError
Overflowing == [parses |-> FALSE, overflows |-> TRUE]

\* any(kw in text_check for kw in IRAN_KEYWORDS)
IsRelevant(text_check) ==
    LET lowered == Lower(text_check)
    IN  \E k \in 1..Len(IRAN_KEYWORDS) : Contains(lowered, IRAN_KEYWORDS[k])

\* hashlib.md5(s.encode()).hexdigest()[:12]: the digest is not computed;
\* "#" and the hashed text stand for it
Digest(s) == <<"#">> \o s

\* the body of the loop of parse_rss for one entry
ParseEntry(entry, source_name, tag_type, now) ==
    LET title == TitleOf(entry)
        link == LinkOf(entry)
        desc == DescOf(entry)
        pub_date == PubDateOf(entry)
        kept == title # <<>> /\ IsRelevant(title \o <<" ">> \o desc)
        iso_time == IF pub_date.parses THEN pub_date.instant ELSE now
    IN  [kept |-> kept,
         raised |-> kept /\ Get(pub_date, "overflows", FALSE),
         item |-> [id |-> Digest(title \o link), type |-> "news", tag |-> tag_type,
                   source |-> source_name, title |-> title,
                   excerpt |-> Take(desc, EXCERPT_LEN), url |-> link,
                   time |-> iso_time, timestamp |-> iso_time]]

\* root.findall(".//item"), else the Atom entries, cut to max_items
EntriesOf(body) ==
    Take(IF Get(body, "items", <<>>) # <<>> THEN body.items ELSE Get(body, "entries", <<>>),
         MAX_FEED_ITEMS)

\* parse_rss(xml_text, source_name, tag_type): ET.ParseError gives no items,
\* any other exception leaves the function
parse_rss(body, source_name, tag_type, now) ==
    LET parsed == [k \in 1..Len(EntriesOf(body)) |->
                      ParseEntry(EntriesOf(body)[k], source_name, tag_type, now)]
        Kept(k) == parsed[k].kept
        keptIdx == SelectSeq([k \in 1..Len(parsed) |-> k], Kept)
    IN  IF body.kind # "xml" THEN [raised |-> FALSE, items |-> <<>>]
        ELSE IF \E k \in 1..Len(parsed) : parsed[k].raised
        THEN [raised |-> TRUE, items |-> <<>>]
        ELSE [raised |-> FALSE, items |-> [k \in 1..Len(keptIdx) |-> parsed[keptIdx[k]].item]]

\* the first feeds of fetch_rss_news_feeds: source name and tag
Feeds == <<[source |-> <<"I", "r", "a", "n", " ", "I", "n", "t", "l">>, tag |-> "breaking"],
           [source |-> <<"G", "o", "o", "g", "l", "e", " ", "N", "e", "w", "s">>, tag |-> "breaking"],
           [source |-> <<"R", "e", "u", "t", "e", "r", "s">>, tag |-> "breaking"]>>

\* fetch_one_feed(feed_tuple): no body and an empty body give no items
fetch_one_feed(body, feed, now) ==
    IF body.kind \in {"none", "empty"} THEN [raised |-> FALSE, items |-> <<>>]
    ELSE parse_rss(body, feed.source, feed.tag, now)

\* a faulty variant of Extend: the result replaces what was collected
ExtendReplaces(items, result) == IF result.raised THEN items ELSE result.items

\* all_items.extend(future.result()) inside try/except Exception: pass
Extend(items, result) == IF result.raised THEN items ELSE items \o result.items

\* entries of a feed: on topic with markup and blanks; off topic; on topic
\* only in the part of the description beyond the excerpt; the headline of
\* the first in other letters; an Atom entry without date; no title; a date
\* that overflows
EntryIran == [title |-> <<" ", "I", "r", "a", "n", " ", "d", "e", "a", "l", " ">>, link |-> <<"h", "t", "t", "p", ":", "/", "/", "a">>,
              description |-> <<"<", "b", ">", "x", "<", "/", "b", ">", " ", "<", ">", "y", " ", "<", "a", "<", "b", ">", "z">>, pubDate |-> ParsedAt(NowHour - 1)]
EntryCup == [title |-> <<"C", "u", "p">>, link |-> <<"h", "t", "t", "p", ":", "/", "/", "c">>, description |-> <<"f", "i", "n", "a", "l">>,
             pubDate |-> ParsedAt(NowHour)]
EntryTail == [title |-> <<"T", "a", "l", "k", "s">>, link |-> <<"h", "t", "t", "p", ":", "/", "/", "t">>,
              description |-> [i \in 1..(DESC_LEN - 10) |-> "z"] \o <<" ", "i", "r", "a", "n">>,
              pubDate |-> ParsedAt(NowHour - 2)]
EntrySame == [title |-> <<"I", "R", "A", "N", " ", "d", "e", "a", "l", "!">>, href |-> <<"h", "t", "t", "p", ":", "/", "/", "s">>, pubDate |-> ParsedAt(NowHour - 1)]
EntryAtom == [atom_title |-> <<"H", "o", "r", "m", "u", "z">>, atom_href |-> <<"h", "t", "t", "p", ":", "/", "/", "h">>, summary |-> <<"s", "t", "r", "a", "i", "t">>,
              updated |-> Unparseable]
EntryNoTitle == [title |-> <<" ">>, description |-> <<"i", "r", "a", "n">>, pubDate |-> ParsedAt(NowHour)]
EntryOverflow == [title |-> <<"T", "e", "h", "r", "a", "n">>, link |-> <<"h", "t", "t", "p", ":", "/", "/", "o">>, pubDate |-> Overflowing]

Xml(items, entries) == [kind |-> "xml", items |-> items, entries |-> entries]

\* what a feed gives: no body (network error, timeout), an empty body, a
\* body that is not XML, and documents
FeedBodies ==
    {[kind |-> "none"], [kind |-> "empty"], [kind |-> "malformed"],
     Xml(<<>>, <<>>),
     Xml(<<EntryIran, EntryCup>>, <<EntryAtom>>),
     Xml(<<EntrySame>>, <<>>),
     Xml(<<EntryTail, EntryNoTitle>>, <<>>),
     Xml(<<>>, <<EntryAtom>>),
     Xml(<<EntrySame, EntryOverflow>>, <<>>)}

\* one post of a search payload
NewsPost(author, body_text) ==
    [id |-> <<"7">>, author_id |-> author, text |-> body_text, created_at |-> ParsedAt(NowHour),
     public_metrics |-> HighMetrics]

TextIsrael == <<"I", "s", "r", "a", "e", "l", " ">> \o Filler

\* how the social fetch goes: no token; nothing found; a post on Iran; a post
\* that names Russia; a post that names Israel; a reranker reply that keeps
\* the post; a reranker reply that int() rejects
SocialCases ==
    LET Payload(t) == [data |-> <<NewsPost(<<"1">>, t)>>, includes |-> [users |-> Users]]
        Case(token, payload, key, resp) ==
            [token |-> token, payload |-> payload, key |-> key, resp |-> resp]
    IN  {Case(<<>>, Payload(TextIran), <<>>, [kind |-> "none"]),
         Case(<<"t">>, [empty |-> TRUE], <<>>, [kind |-> "none"]),
         Case(<<"t">>, Payload(TextIran), <<>>, [kind |-> "none"]),
         Case(<<"t">>, Payload(TextRussia), <<>>, [kind |-> "none"]),
         Case(<<"t">>, Payload(TextIsrael), <<"k">>, Body(<<"1">>)),
         Case(<<"t">>, Payload(TextIran), <<"k">>, Body(<<SuperTwo>>))}

\* what a call that an exception left has produced
Escaped == [ended |-> TRUE, raised |-> TRUE, items |-> <<>>]

InitNews ==
    /\ feed_bodies \in [1..Len(Feeds) -> FeedBodies]
    /\ pending = 1..Len(Feeds)
    /\ collected = <<>>
    /\ rss_news = <<>>
    /\ news_out = [ended |-> FALSE]
    /\ news_phase = "collecting"
    /\ get_response = [status |-> 0]
    /\ x_now = NowHour
    /\ x_token = <<>> /\ x_payload = [empty |-> TRUE] /\ x_llm_key = <<>>
    /\ x_llm_response = [kind |-> "none"] /\ x_fetch = [ended |-> FALSE] /\ x_phase = "idle"
    /\ InitFeedsRestIdle

\* as_completed yields the future of feed f; with the last one the loop
\* ends and fetch_rss_news_feeds returns
FeedCompletes(f) ==
    /\ news_phase = "collecting"
    /\ f \in pending
    /\ collected' = Extend(collected, fetch_one_feed(feed_bodies[f], Feeds[f], x_now))
    /\ pending' = pending \ {f}
    /\ IF pending' = {}
       THEN rss_news' = fetch_rss_news_feeds(collected') /\ news_phase' = "rss_done"
       ELSE UNCHANGED <<rss_news, news_phase>>
    /\ UNCHANGED <<feed_bodies, news_out, get_response, fetchVars>>
    /\ UNCHANGED feedsRest

\* the 20 seconds of as_completed end with a future unfinished: TimeoutError
\* is raised in the for statement, outside the try, and leaves
\* fetch_rss_news_feeds and fetch_news_feeds
DeadlineExpires ==
    /\ news_phase = "collecting"
    /\ pending # {}
    /\ news_out' = Escaped
    /\ news_phase' = "raised"
    /\ UNCHANGED <<feed_bodies, pending, collected, rss_news, get_response, fetchVars>>
    /\ UNCHANGED feedsRest

\* the rest of fetch_news_feeds: the social fetch and the merge
MergeNews ==
    /\ news_phase = "rss_done"
    /\ \E c \in SocialCases :
          /\ x_token' = c.token /\ x_payload' = c.payload
          /\ x_llm_key' = c.key /\ x_llm_response' = c.resp
          /\ x_fetch' = fetch_x_source_items(c.token, c.payload, x_now, c.key, c.resp)
    /\ x_phase' = "done"
    /\ news_out' = IF x_fetch'.raised THEN Escaped
                   ELSE [ended |-> TRUE, raised |-> FALSE,
                         items |-> merge_and_dedupe_news_items(rss_news, x_fetch'.items, NEWS_LIMIT),
                         rssCount |-> Len(rss_news)]
    /\ news_phase' = IF x_fetch'.raised THEN "raised" ELSE "done"
    /\ UNCHANGED <<feed_bodies, pending, collected, rss_news, get_response, x_now>>
    /\ UNCHANGED feedsRest

(***************************************************************************)
(* do_GET after fetch_news_feeds: fetch_polymarket, the selection of six   *)
(* markets, build_odds_history and the response.  None of the three calls  *)
(* lets an exception out: fetch_polymarket and llm_rank_market_ids catch   *)
(* every Exception, fetch_price_history does too.                          *)
(***************************************************************************)
DASHBOARD_KEEP == 6

NumberedTitle(n) == <<"I", "r", "a", "n", " ", Digits[n + 1], "?">>

\* two sub-markets named "No" and "Yes"
YesNoSubMarkets(n) ==
    <<[SubMarket(1, FALSE, Number(n)) EXCEPT !.groupItemTitle = <<"N", "o">>],
      [SubMarket(2, FALSE, Number(n)) EXCEPT !.groupItemTitle = YesLabel]>>

\* event n of a response: every third has a "Yes", every third has no token
ListedEvent(n) ==
    IF n % 3 = 0 THEN Event(n, NumberedTitle(n), YesNoSubMarkets(n))
    ELSE IF n % 3 = 1 THEN Event(n, NumberedTitle(n), SubMarkets(2, 1, "plain"))
    ELSE Event(n, NumberedTitle(n), SubMarkets(2, 0, "sparse"))

EventsResponse(es) == [kind |-> "events", events |-> es]
NoRanking == [has_key |-> FALSE, call_ok |-> FALSE, content |-> <<>>]
Ranking(content) == [has_key |-> TRUE, call_ok |-> TRUE, content |-> content]

\* what the markets endpoint, the ranking model and the price-history
\* endpoint give to one request: no data; seven events, more than are kept;
\* two events of the same title; an event whose sub-markets are all closed.
\* history tells which price-history fetches yield points.
DashboardCases ==
    LET Seven == EventsResponse([n \in 1..(DASHBOARD_KEEP + 1) |-> ListedEvent(n)])
        Case(r, k, h) == [polymarket |-> r, ranking |-> k, history |-> h]
    IN  {Case([kind |-> "nodata"], NoRanking, "none"),
         Case(Seven, NoRanking, "all"),
         Case(Seven, NoRanking, "none"),
         Case(Seven, Ranking(<<"7", ",", "1">>), "odd"),
         Case(EventsResponse(<<FixedEvent(1), Event(2, FixedEvent(1).title, YesNoSubMarkets(2))>>),
              NoRanking, "odd"),
         Case(EventsResponse(<<Event(1, NumberedTitle(1), SubMarkets(0, 2, "plain"))>>), NoRanking, "all")}

\* select_markets_for_dashboard(markets, max_keep)
select_markets_for_dashboard(mkts, keep, ranking) ==
    SelectWithRanking(mkts, keep,
                      llm_rank_market_ids(CandidatePool(mkts), keep, ranking.has_key,
                                          ranking.call_ok, ranking.content))

\* what fetch_price_history yields for the i-th market
FetchedFor(i, history, now) ==
    IF history = "all" \/ (history = "odd" /\ i % 2 = 1) THEN RealSeries(now) ELSE <<>>

\* sum(len(list(v.values())[0]) if v else 0 for v in odds_history.values())
RECURSIVE HistoryPoints(_, _)
HistoryPoints(history, keys) ==
    IF keys = {} THEN 0
    ELSE LET q == CHOOSE q \in keys : TRUE
         IN  Len(history[q].points) + HistoryPoints(history, keys \ {q})

\* the response of do_GET, given what fetch_news_feeds returned
Response(items, rss_count, case, now) ==
    LET fetched == fetch_polymarket(case.polymarket)
        chosen == select_markets_for_dashboard(fetched, DASHBOARD_KEEP, case.ranking)
        built == build_odds_history(chosen,
                                    [i \in 1..Len(chosen) |-> FetchedFor(i, case.history, now)],
                                    [i \in 1..Len(chosen) |->
                                        [k \in 0..SYNTH_STEPS |-> NOISE_MAX * Tenths]],
                                    now)
    IN  [status |-> 200,
         news |-> Take(items, NEWS_LIMIT),
         markets |-> built.markets,
         oddsHistory |-> built.history,
         meta |-> [newsCount |-> Len(items),
                   rssCount |-> rss_count,
                   marketsCount |-> Len(built.markets),
                   historyPoints |-> HistoryPoints(built.history, DOMAIN built.history)]]

\* do_GET from the return of fetch_news_feeds to the response
Respond ==
    /\ news_phase = "done"
    /\ \E case \in DashboardCases :
          get_response' = Response(news_out.items, news_out.rssCount, case, x_now * STEP_HOURS)
    /\ news_phase' = "responded"
    /\ UNCHANGED <<feed_bodies, pending, collected, rss_news, news_out, fetchVars>>
    /\ UNCHANGED feedsRest

NextNews == (\E f \in 1..Len(Feeds) : FeedCompletes(f)) \/ DeadlineExpires \/ MergeNews \/ Respond

SpecNews == InitNews /\ [][NextNews]_vars

\* every operation of the model
Init == InitMerge \/ InitSelect \/ InitRank \/ InitFilter \/ InitScore \/ InitFetch \/ InitHist \/ InitPoly \/ InitNews
Next == NextMerge \/ NextSelect \/ NextRank \/ NextFilter \/ NextScore \/ NextFetch \/ NextHist \/ NextPoly \/ NextNews
Spec == Init /\ [][Next]_vars

(***************************************************************************)
(* Claims about the news aggregator, checked under SpecMerge.              *)
(***************************************************************************)
Combined == rss_items \o x_items
Range(s) == {s[i] : i \in 1..Len(s)}
KeysOf(s) == {_news_dedupe_key(s[i]) : i \in 1..Len(s)}

\* the first item of `items` that has the key
FirstWithKey(items, key) ==
    items[CHOOSE i \in 1..Len(items) :
              /\ _news_dedupe_key(items[i]) = key
              /\ \A j \in 1..(i - 1) : _news_dedupe_key(items[j]) # key]

\* the deduplicated set: one item per key, the first of the concatenation
DedupedSet == {FirstWithKey(Combined, key) : key \in KeysOf(Combined)}

SocialCount(s) == Cardinality({i \in 1..Len(s) : IsXOrigin(s[i])})

SortedDesc(s) == \A i \in 1..(Len(s) - 1) : TimeKey(s[i]) >= TimeKey(s[i + 1])

\* C1: the merge returns at most `limit` items and at least min(limit, D)
\* items, D the number of distinct dedupe keys of rss_items + x_items; for
\* limit <= 0 it returns the empty list.
C1_LimitBounds ==
    phase = "merged" =>
        /\ Len(merged) <= Max(limit, 0)
        /\ Len(merged) >= Min(limit, Cardinality(KeysOf(Combined)))
        /\ (limit <= 0 => merged = <<>>)

\* C1 witness: a merge whose inputs hold duplicates and more stories than the
\* limit admits, cut to exactly the limit.
C1_Witness ==
    /\ phase = "merged" /\ limit >= 1
    /\ Len(Combined) > Cardinality(KeysOf(Combined))
    /\ Cardinality(KeysOf(Combined)) > limit
    /\ Len(merged) = limit

\* C2: the list returned by the merge never holds two items with the same
\* dedupe key.
C2_NoDuplicateKeys ==
    phase = "merged" =>
        \A i \in 1..Len(merged) : \A j \in 1..Len(merged) :
            i # j => _news_dedupe_key(merged[i]) # _news_dedupe_key(merged[j])

\* C2 witness: a story is in the feed list and in the social list, or twice in
\* the feed list, and the merge collapsed it and returned at least two items.
C2_Witness ==
    /\ phase = "merged" /\ Len(merged) >= 2
    /\ \/ \E i \in 1..Len(rss_items) : \E j \in 1..Len(x_items) :
              _news_dedupe_key(rss_items[i]) = _news_dedupe_key(x_items[j])
       \/ \E i \in 1..Len(rss_items) : \E j \in 1..Len(rss_items) :
              i # j /\ _news_dedupe_key(rss_items[i]) = _news_dedupe_key(rss_items[j])
    /\ Len(Combined) > Len(merged)
    /\ limit >= Len(Combined)

C4_KeepsNewest ==
    phase = "merged" =>
        \A k \in 1..Len(merged) : \A i \in 1..Len(Combined) :
            _news_dedupe_key(Combined[i]) = _news_dedupe_key(merged[k])
            => TimeKey(Combined[i]) <= TimeKey(merged[k])

\* C5 as stated: with at least X_RESERVED_NEWS_SLOTS social-origin items in
\* the deduplicated set and limit >= 1, the result holds at least
\* X_RESERVED_NEWS_SLOTS social-origin items.
C5_ReservedFloor ==
    (phase = "merged" /\ limit >= 1
     /\ Cardinality({it \in DedupedSet : IsXOrigin(it)}) >= X_RESERVED_NEWS_SLOTS)
    => SocialCount(merged) >= X_RESERVED_NEWS_SLOTS

\* C5 amended: with at least X_RESERVED_NEWS_SLOTS social-origin items in the
\* deduplicated set and limit >= 1, the result holds at least
\* min(X_RESERVED_NEWS_SLOTS, limit) social-origin items.
C5_ReservedFloorWithinLimit ==
    (phase = "merged" /\ limit >= 1
     /\ Cardinality({it \in DedupedSet : IsXOrigin(it)}) >= X_RESERVED_NEWS_SLOTS)
    => SocialCount(merged) >= Min(X_RESERVED_NEWS_SLOTS, limit)

\* C5 witness: at least X_RESERVED_NEWS_SLOTS social stories, and a feed item
\* newer than a selected social item is left out for the quota.
C5_Witness ==
    /\ phase = "merged" /\ limit >= X_RESERVED_NEWS_SLOTS
    /\ Cardinality({it \in DedupedSet : IsXOrigin(it)}) >= X_RESERVED_NEWS_SLOTS
    /\ SocialCount(merged) = X_RESERVED_NEWS_SLOTS
    /\ \E f \in DedupedSet : \E k \in 1..Len(merged) :
           /\ ~IsXOrigin(f) /\ f \notin Range(merged)
           /\ IsXOrigin(merged[k]) /\ TimeKey(f) > TimeKey(merged[k])

\* C6: the list returned by the merge, and the list returned by
\* fetch_news_feeds, is ordered by time, descending.
C6_SortedByTimeDesc ==
    /\ phase = "merged" => SortedDesc(merged)
    /\ phase = "fetched" => SortedDesc(news)

\* C6 witness: the result mixes feed and social items, a social item being
\* newer than a feed item of the result.
C6_Witness ==
    /\ phase = "merged" /\ Len(merged) >= 3
    /\ \E i \in 1..Len(merged) : \E j \in 1..Len(merged) :
           /\ IsXOrigin(merged[i]) /\ ~IsXOrigin(merged[j])
           /\ TimeKey(merged[i]) > TimeKey(merged[j])

\* C7: merging a list with itself yields the same items as merging it once
\* (here: the same list).
C7_SelfMergeIdempotent ==
    phase = "self" =>
        /\ Range(self_merged) = Range(once_merged)
        /\ self_merged = once_merged

\* C7 witness: a list of at least two stories merged with itself under a
\* limit that its doubled length exceeds.
C7_Witness ==
    /\ phase = "self" /\ Cardinality(KeysOf(Combined)) >= 2
    /\ limit >= 2 /\ limit < 2 * Len(Combined)
    /\ Len(self_merged) >= 2

(***************************************************************************)
(* Claims about the market selector, checked under SpecSelect.             *)
(***************************************************************************)
PoolSize == Min(CANDIDATE_POOL_SIZE, Len(markets))

\* C8: for every market list, max_keep >= 0 and reranker outcome the
\* selector returns exactly min(max_keep, poolSize) items.
C8_ExactCount ==
    sel_phase \in {"no_key", "failed", "replied"} =>
        Len(selected) = Min(max_keep, PoolSize)

\* the markets the ranked ids name, in ranked order
RankedMarkets == [k \in 1..Len(ranked_ids) |-> markets[ranked_ids[k]]]

\* the markets of the pool that no ranked id names, in the pool's order
UnrankedMarkets ==
    LET Unranked(m) == ~ \E k \in 1..Len(ranked_ids) : markets[ranked_ids[k]] = m
    IN  SelectSeq(Take(markets, CANDIDATE_POOL_SIZE), Unranked)

\* C9: the selector returns the markets named by the reranker's ids, in
\* ranked order, followed by the markets not yet chosen in the pool's order
\* for the slots that remain under max_keep; without ranked ids it returns
\* the first max_keep markets of the pool.
C9_RankedThenFill ==
    sel_phase \in {"no_key", "failed", "replied"} =>
        /\ \A k \in 1..Len(ranked_ids) : ranked_ids[k] \in 1..PoolSize
        /\ selected = RankedMarkets \o Take(UnrankedMarkets, max_keep - Len(ranked_ids))
        /\ ranked_ids = <<>> => selected = Take(Take(markets, CANDIDATE_POOL_SIZE), max_keep)

\* C9 witness: a partial ranking out of volume order, the remaining slots
\* filled from the pool.
C9_Witness ==
    /\ sel_phase = "replied"
    /\ Len(ranked_ids) = 2 /\ ranked_ids[1] > ranked_ids[2]
    /\ max_keep > Len(ranked_ids) /\ Len(selected) = max_keep
    /\ Len(markets) > CANDIDATE_POOL_SIZE

(***************************************************************************)
(* Claims about the reply parser, checked under SpecRank.                  *)
(***************************************************************************)
\* the numeric tokens of the text within 1..max_index, each at its first
\* appearance
FirstValidTokens ==
    LET toks == NumericTokens(text)
        keep == {i \in 1..Len(toks) :
                    /\ toks[i] \in 1..max_index
                    /\ \A j \in 1..(i - 1) : toks[j] # toks[i]}
        Pick(n) == CHOOSE i \in keep : Cardinality({j \in keep : j < i}) = n - 1
    IN  [n \in 1..Cardinality(keep) |-> toks[Pick(n)]]

\* C10: extract_ranked_ids returns the numeric tokens of the reply that lie
\* in 1..max_index, without duplicates, in order of first appearance, and at
\* most max_count of them.
C10_FirstValidUpToCount ==
    rank_phase = "done" => ranked = Take(FirstValidTokens, max_count)

(***************************************************************************)
(* Claims about the reranker of social items.                              *)
(***************************************************************************)
\* the reply text of the body in llm_response
ReplyText == LlmText(llm_response)

\* the request ended without a usable verdict: no key, a failed request, a
\* body that does not decode, or a reply that is neither NONE nor a list
\* with a valid number
AmbiguousFailure ==
    \/ filter_phase = "not_run" /\ cand_items # <<>>
    \/ filter_phase = "failed"
    \/ /\ filter_phase = "replied"
       /\ \/ ~llm_response.valid \/ ~llm_response.object
          \/ /\ Upper(ReplyText) # NoneWord
             /\ \A n \in 1..Len(cand_items) :
                   ~ \E i \in 1..Len(SplitComma(Strip(ReplyText), 1, <<>>, <<>>)) :
                       LET tok == Strip(SplitComma(Strip(ReplyText), 1, <<>>, <<>>)[i])
                       IN  tok # <<>> /\ IntAccepts(tok) /\ IntOf(tok, 1, 0) = n

\* the tag that names each failure
FailureTag ==
    IF filter_phase = "not_run" THEN Tag("no_api_key")
    ELSE IF filter_phase = "failed"
    THEN IF llm_response.kind = "http_error" THEN HttpTag(llm_response.code)
         ELSE IF llm_response.kind = "url_error" THEN Tag("network_error_passthrough")
         ELSE Tag("request_failed_passthrough")
    ELSE IF ~llm_response.valid \/ ~llm_response.object THEN Tag("parse_failed_passthrough")
    ELSE Tag("unparseable_passthrough")

\* C11: for a non-empty candidate list, every ambiguous failure of the
\* reranker (no API key, HTTP error, network error, other request failure,
\* malformed body, empty or unparseable reply) returns the original list
\* unchanged and the result tag names the failure, with httpStatus on an
\* HTTP error.
C11_AmbiguousPassthrough ==
    (AmbiguousFailure /\ cand_items # <<>>) =>
        /\ ~filter_result.raised
        /\ filter_result.items = cand_items
        /\ filter_result.meta.result = FailureTag
        /\ llm_response.kind = "http_error" =>
               /\ "httpStatus" \in DOMAIN filter_result.meta
               /\ filter_result.meta.httpStatus = llm_response.code

\* the call returned an empty list for a non-empty candidate list
EmptiedByReranker ==
    /\ filter_phase # "input" /\ cand_items # <<>>
    /\ ~filter_result.raised /\ filter_result.items = <<>>

\* the result of a fail-closed verdict
FilteredNone ==
    /\ ~filter_result.raised
    /\ filter_result.items = <<>>
    /\ filter_result.meta.result = Tag("filtered_none")
    /\ filter_result.meta.outputCount = 0

\* the request yielded a body that decodes to a JSON object
DecodedReply ==
    filter_phase = "replied" /\ llm_response.valid /\ llm_response.object

\* C12 as stated: a reply whose text is the literal NONE yields the empty
\* list with tag 'filtered_none' and outputCount 0, and the literal NONE is
\* the only reply that empties a non-empty candidate list.
C12_OnlyLiteralNone ==
    /\ (DecodedReply /\ ReplyText = NoneWord) => FilteredNone
    /\ EmptiedByReranker => (DecodedReply /\ ReplyText = NoneWord)

\* C12 amended: a reply whose text is NONE in any letter case yields the
\* empty list with tag 'filtered_none' and outputCount 0, and such a reply
\* is the only one that empties a non-empty candidate list.
C12_OnlyNoneAnyCase ==
    /\ (DecodedReply /\ Upper(ReplyText) = NoneWord) => FilteredNone
    /\ EmptiedByReranker => (DecodedReply /\ Upper(ReplyText) = NoneWord)

\* a reply "none" in lower case has emptied a list of two candidates
C12_Witness ==
    /\ DecodedReply /\ Len(cand_items) >= 2
    /\ ReplyText = <<"n", "o", "n", "e">>
    /\ FilteredNone

(***************************************************************************)
(* Claims about the social signal scorer.                                  *)
(***************************************************************************)
\* likes + 2*reposts + replies + quotes of the scored post
PostEngagement ==
    scored_post.public_metrics.like_count + 2 * scored_post.public_metrics.retweet_count
    + scored_post.public_metrics.reply_count + scored_post.public_metrics.quote_count

XPosts == Get(x_payload, "data", <<>>)
XUsers == Get(Get(x_payload, "includes", [empty |-> TRUE]), "users", <<>>)

\* C13: when the bearer token is absent or blank, fetch_x_source_items
\* returns an empty list without issuing the search request or the reranker
\* request, its debug record has xEnabled = false and xStatus =
\* 'no_x_token', and no error is raised.
C13_NoTokenDisabled ==
    (x_phase # "input" /\ Strip(x_token) = <<>>) =>
        /\ x_phase = "done"
        /\ ~x_fetch.raised
        /\ x_fetch.items = <<>>
        /\ x_fetch.requests = <<>>
        /\ x_fetch.debug.xEnabled = FALSE
        /\ x_fetch.debug.xStatus = "no_x_token"

\* a call with a token of one blank has returned while the search would
\* have yielded six or more posts
C13_Witness ==
    /\ x_phase = "done" /\ x_token = <<" ">>
    /\ Len(XPosts) >= X_MAX_ITEMS
    /\ x_fetch.items = <<>> /\ x_fetch.debug.xStatus = "no_x_token"

\* the author's handle of post k is outside the allow-list, or not resolved
Unvetted(k) ==
    LET matches == {u \in 1..Len(XUsers) :
                       Get(XUsers[u], "id", <<>>) = Get(XPosts[k], "author_id", <<>>)}
    IN  \A u \in matches :
            (\A v \in matches : v <= u) =>
                \A a \in 1..Len(X_ALLOWED_ACCOUNTS) :
                    Lower(Get(XUsers[u], "username", <<>>)) # X_ALLOWED_ACCOUNTS[a]

\* C15: a post whose author's handle, compared without regard to case, is
\* outside the allow-list, or whose author is not resolved, is not accepted
\* by the scorer and is not among the items fetch_x_source_items returns.
C15_OnlyVettedAccounts ==
    (x_phase # "input" /\ x_fetch.ended) =>
        /\ \A k \in 1..Len(XPosts) :
              Unvetted(k) =>
                  /\ x_fetch.verdicts # <<>> => ~x_fetch.verdicts[k].accepted
                  /\ \A j \in 1..Len(x_fetch.items) :
                        x_fetch.items[j].id # <<"x", "-">> \o XPosts[k].id
        /\ \A j \in 1..Len(x_fetch.items) :
              \E a \in 1..Len(X_ALLOWED_ACCOUNTS) :
                  Lower(x_fetch.items[j].source) = AtSign \o X_ALLOWED_ACCOUNTS[a]

\* a call has returned an item of an allowed account while the payload also
\* held an on-topic post of high engagement by a handle outside the list
C15_Witness ==
    /\ x_phase = "done" /\ ~x_fetch.raised
    /\ x_fetch.items # <<>>
    /\ \E k \in 1..Len(XPosts) :
          /\ Unvetted(k)
          /\ XPosts[k].author_id = <<"3">>
          /\ XPosts[k].public_metrics = HighMetrics

\* the sorted candidates and the selection of the call
Cands == x_fetch.candidates
Chosen == x_fetch.selected

\* candidate k has fewer than X_MAX_PER_ACCOUNT candidates of its account
\* ahead of it
UnderAccountCap(k) ==
    Cardinality({i \in 1..(k - 1) : Cands[i].username = Cands[k].username})
        < X_MAX_PER_ACCOUNT

\* the candidates the claim selects: those under their account's cap that
\* have fewer than X_MAX_ITEMS such candidates ahead of them
Slate ==
    {k \in 1..Len(Cands) :
        /\ UnderAccountCap(k)
        /\ Cardinality({i \in 1..(k - 1) : UnderAccountCap(i)}) < X_MAX_ITEMS}

\* the members of Slate in increasing order
SlateSeq ==
    [p \in 1..Cardinality(Slate) |->
        Cands[CHOOSE k \in Slate : Cardinality({i \in Slate : i < k}) = p - 1]]

\* C16: the selection walks the accepted candidates in (score desc, time
\* desc) order and takes at most X_MAX_ITEMS in total and at most
\* X_MAX_PER_ACCOUNT per account; a candidate skipped for its account's cap
\* uses no slot, so the next candidates of other accounts are still taken
\* while fewer than X_MAX_ITEMS are chosen.
C16_CappedSelection ==
    (x_phase # "input" /\ Strip(x_token) # <<>>) =>
        /\ \A i \in 1..(Len(Cands) - 1) :
              \/ Cands[i].score > Cands[i + 1].score
              \/ /\ Cands[i].score = Cands[i + 1].score
                 /\ Cands[i].item.time >= Cands[i + 1].item.time
        /\ Len(Chosen) <= X_MAX_ITEMS
        /\ \A j \in 1..Len(Chosen) :
              Cardinality({i \in 1..Len(Chosen) : Chosen[i].username = Chosen[j].username})
                  <= X_MAX_PER_ACCOUNT
        /\ Chosen = SlateSeq
        /\ x_fetch.debug.xSelectedBeforeLlm = Len(Chosen)

\* X_MAX_ITEMS candidates were chosen, one of them ranked below a candidate
\* that was skipped for its account's cap, and a candidate under its
\* account's cap was left out because the selection was full
C16_Witness ==
    /\ x_phase = "done" /\ Strip(x_token) # <<>>
    /\ Len(Chosen) = X_MAX_ITEMS
    /\ \E k \in 1..Len(Cands) : ~UnderAccountCap(k) /\ \E j \in Slate : j > k
    /\ \E k \in 1..Len(Cands) : UnderAccountCap(k) /\ k \notin Slate

(***************************************************************************)
(* Claims about the price history reconciler.                              *)
(***************************************************************************)
\* market i is among those that get a series
Charted(i) == i \in 1..Min(Len(hist_markets), TOP_MARKETS)

\* the series of market i was synthesized: no token, or a fetch without points
Synthesized(i) ==
    Charted(i) /\ (hist_markets[i]._clobTokenId = <<>> \/ hist_fetches[i] = <<>>)

\* the series returned for market i
PointsOf(i) == odds_history[hist_markets[i].question].points

\* the current probability of the outcome the series stands for: the "Yes"
\* outcome's, else the first outcome's, else 50.0
CurrentProbability(i) ==
    LET outs == hist_markets[i].outcomes
    IN  IF \E k \in 1..Len(outs) : outs[k].label = YesLabel
        THEN outs[CHOOSE k \in 1..Len(outs) :
                     outs[k].label = YesLabel /\ \A j \in 1..(k - 1) : outs[j].label # YesLabel]
                 .probability
        ELSE IF Len(outs) > 0 THEN outs[1].probability
        ELSE 500

\* C17: the last point of every synthesized series has y equal to the
\* current probability of the chosen outcome, for every probability in
\* [0, 100] and every noise draw.
C17_AnchorInvariant ==
    hist_phase = "done" =>
        \A i \in 1..Len(hist_markets) :
            Synthesized(i) => PointsOf(i)[Len(PointsOf(i))].y = CurrentProbability(i)

\* a series synthesized for a probability of 100.0 under non-zero noise ends
\* at 100.0
C17_Witness ==
    /\ hist_phase = "done" /\ Len(hist_markets) = 1 /\ Synthesized(1)
    /\ CurrentProbability(1) = 1000
    /\ noise_draws[1][1] # 0
    /\ PointsOf(1)[Len(PointsOf(1))].y = 1000

\* C18 as stated: every point of a synthesized series has y within [1, 99],
\* for every current probability from 0 to 100 and every noise draw.
C18_AllPointsClamped ==
    hist_phase = "done" =>
        \A i \in 1..Len(hist_markets) :
            Synthesized(i) =>
                \A k \in 1..Len(PointsOf(i)) : PointsOf(i)[k].y >= 10 /\ PointsOf(i)[k].y <= 990

\* C18 amended: every point of a synthesized series but the last has y
\* within [1, 99]; the last carries the current probability, within [0, 100].
C18_ClampedBeforeAnchor ==
    hist_phase = "done" =>
        \A i \in 1..Len(hist_markets) :
            Synthesized(i) =>
                /\ \A k \in 1..(Len(PointsOf(i)) - 1) :
                      PointsOf(i)[k].y >= 10 /\ PointsOf(i)[k].y <= 990
                /\ PointsOf(i)[Len(PointsOf(i))].y \in 0..1000

\* a series synthesized for a probability of 0.0 under the largest negative
\* draws: its last point is 0.0 and the points before it are at 1.0
C18_Witness ==
    /\ hist_phase = "done" /\ Len(hist_markets) = 1 /\ Synthesized(1)
    /\ CurrentProbability(1) = 0
    /\ noise_draws[1][1] = -30
    /\ PointsOf(1)[Len(PointsOf(1))].y = 0
    /\ PointsOf(1)[1].y = 10

\* C19: after build_odds_history no market record holds _clobTokenId,
\* whether the market had a token or not and whether its series was
\* fetched or synthesized.
C19_TokenStripped ==
    hist_phase = "done" =>
        /\ Len(markets_out) = Len(hist_markets)
        /\ \A i \in 1..Len(markets_out) :
              /\ "_clobTokenId" \notin DOMAIN markets_out[i]
              /\ markets_out[i].question = hist_markets[i].question

\* seven markets went in, among them one with a fetched series, one whose
\* fetch yielded nothing and one without token, and the seventh had a token
C19_Witness ==
    /\ hist_phase = "done" /\ Len(hist_markets) > TOP_MARKETS
    /\ hist_markets[Len(hist_markets)]._clobTokenId # <<>>
    /\ \E i \in 1..TOP_MARKETS : hist_markets[i]._clobTokenId # <<>> /\ hist_fetches[i] # <<>>
    /\ \E i \in 1..TOP_MARKETS : hist_markets[i]._clobTokenId # <<>> /\ hist_fetches[i] = <<>>
    /\ \E i \in 1..TOP_MARKETS : hist_markets[i]._clobTokenId = <<>>
    /\ \A i \in 1..Len(markets_out) : "_clobTokenId" \notin DOMAIN markets_out[i]

(***************************************************************************)
(* Claims about the market fetcher.                                        *)
(***************************************************************************)
\* the events of the response
Events == IF poly_events.kind = "events" THEN poly_events.events ELSE <<>>

\* the event a returned record was made from: the one with its slug
EventOf(r) == CHOOSE e \in Range(Events) : EventUrlPrefix \o Get(e, "slug", <<>>) = r.url

\* the volumes of all sub-markets of an event, active and closed
AllVolumes(e) == VolumeSum(Get(e, "markets", <<>>), 1)

\* the active sub-markets of an event
ActiveOf(e) == SelectSeq(Get(e, "markets", <<>>), NotClosed)

\* C20: the volume of every record returned by fetch_polymarket is the sum
\* of the volumes of all sub-markets of its event, active and closed,
\* however many of them are active.
C20_VolumeIsTotal ==
    poly_phase = "done" =>
        \A k \in 1..Len(poly_markets) :
            LET subs == Get(EventOf(poly_markets[k]), "markets", <<>>)
            IN  (\A j \in 1..Len(subs) : ~VolumeRaises(subs[j])) =>
                    poly_markets[k].volume = AllVolumes(EventOf(poly_markets[k]))

\* an event with more than six active sub-markets was retained
C20_ManyActive ==
    /\ poly_phase = "done"
    /\ \E k \in 1..Len(poly_markets) : Len(ActiveOf(EventOf(poly_markets[k]))) > OUTCOME_LIMIT

\* with at most six active sub-markets the volume is the sum over all
C20_FewActive ==
    poly_phase = "done" =>
        \A k \in 1..Len(poly_markets) :
            LET subs == Get(EventOf(poly_markets[k]), "markets", <<>>)
            IN  /\ \A j \in 1..Len(subs) : ~VolumeRaises(subs[j])
                /\ Len(ActiveOf(EventOf(poly_markets[k]))) <= OUTCOME_LIMIT
                => poly_markets[k].volume = AllVolumes(EventOf(poly_markets[k]))

\* the relevant events of the response that have no active sub-market
Outcomeless ==
    {k \in 1..Len(Events) :
        /\ is_relevant_market_title(Get(Events[k], "title", <<>>))
        /\ ActiveOf(Events[k]) = <<>>}

\* the returned record made from event k, if any
RecordsOf(k) ==
    {j \in 1..Len(poly_markets) : poly_markets[j].url = EventUrlPrefix \o Get(Events[k], "slug", <<>>)}

\* C21: an event whose sub-markets are all closed, or that has none, gives
\* no record; every record returned by fetch_polymarket has between one and
\* six outcomes, all flagged active.
C21_OutcomesNonEmpty ==
    poly_phase = "done" =>
        /\ \A k \in Outcomeless : RecordsOf(k) = {}
        /\ \A j \in 1..Len(poly_markets) :
              /\ Len(poly_markets[j].outcomes) \in 1..6
              /\ \A o \in 1..Len(poly_markets[j].outcomes) : poly_markets[j].outcomes[o].active = TRUE

\* a relevant event with only closed sub-markets was dropped next to an
\* event that was retained
C21_Witness ==
    /\ poly_phase = "done"
    /\ \E k \in Outcomeless : Get(Events[k], "markets", <<>>) # <<>> /\ RecordsOf(k) = {}
    /\ Len(poly_markets) = 1 /\ Len(poly_markets[1].outcomes) > 0

\* a relevant event with seven active sub-markets was retained with six outcomes
C21_WitnessCapped ==
    /\ poly_phase = "done"
    /\ \E j \in 1..Len(poly_markets) :
          Len(ActiveOf(EventOf(poly_markets[j]))) > 6 /\ Len(poly_markets[j].outcomes) = 6

(***************************************************************************)
(* Claims about the feed fetcher and fetch_news_feeds.                     *)
(***************************************************************************)
\* the topical relevance filter on an item's own title and excerpt
RelevantItem(item) == IsRelevant(item.title \o <<" ">> \o item.excerpt)

\* C22: every item of the news list returned by fetch_news_feeds, from a
\* feed or from the social search, contains a member of IRAN_KEYWORDS in its
\* own title and excerpt.
C22_NewsRelevant ==
    news_phase = "done" =>
        \A k \in 1..Len(news_out.items) : RelevantItem(news_out.items[k])

\* a returned feed item has its only keyword in the part of the description
\* that the excerpt leaves out
C22_FeedItemOffTopic ==
    /\ news_phase = "done"
    /\ \E k \in 1..Len(news_out.items) :
          /\ ~IsXOrigin(news_out.items[k])
          /\ ~RelevantItem(news_out.items[k])

\* a returned social item matched a keyword of the search only
C22_SocialItemOffTopic ==
    /\ news_phase = "done"
    /\ \E k \in 1..Len(news_out.items) :
          /\ IsXOrigin(news_out.items[k])
          /\ ~RelevantItem(news_out.items[k])

\* what parse_rss makes of the body of feed f
Parsed(f) == parse_rss(feed_bodies[f], Feeds[f].source, Feeds[f].tag, x_now)

\* feed f failed: no body, an empty body, a body that is not XML, or a
\* parser that raised
Failed(f) == feed_bodies[f].kind \in {"none", "empty", "malformed"} \/ Parsed(f).raised

\* the items parsed from feed f
ParsedFrom(f) == Parsed(f).items

\* the feeds whose future has been collected
Done == (1..Len(Feeds)) \ pending

RECURSIVE InFeedOrder(_)
InFeedOrder(f) ==
    IF f = 0 THEN <<>>
    ELSE Extend(InFeedOrder(f - 1), fetch_one_feed(feed_bodies[f], Feeds[f], x_now))

\* C30: for fixed contents of the feeds, fetch_rss_news_feeds returns the
\* same list whatever the order in which the fetches complete.
C30_OrderIndependent ==
    news_phase \in {"rss_done", "done"} =>
        rss_news = fetch_rss_news_feeds(InFeedOrder(Len(Feeds)))

\* two feeds carry the same headline and the survivor is the one of the
\* feed collected first, not the one of the first feed
C30_SurvivorByOrder ==
    /\ news_phase = "rss_done"
    /\ Len(rss_news) = Len(fetch_rss_news_feeds(InFeedOrder(Len(Feeds))))
    /\ \E k \in 1..Len(rss_news) :
          /\ _news_dedupe_key(rss_news[k]) = _news_dedupe_key(fetch_rss_news_feeds(InFeedOrder(Len(Feeds)))[k])
          /\ rss_news[k].source # fetch_rss_news_feeds(InFeedOrder(Len(Feeds)))[k].source


(***************************************************************************)
(* Claims about the whole request.                                         *)
(***************************************************************************)
\* C24: no exception leaves do_GET, whatever the external calls yield:
\* failing or undecodable feeds, markets, price histories, social search
\* and model replies, and a feed fetch unfinished at the 20-second deadline.
C24_NoExceptionEscapes == news_phase # "raised"

\* the deadline passed with a feed unfinished and no response was sent
C24_DeadlineEscapes ==
    news_phase = "raised" /\ pending # {} /\ get_response.status = 0

\* a response was sent though every feed had failed and the markets
\* endpoint gave no data
C24_RespondedDespiteFailures ==
    /\ news_phase = "responded" /\ get_response.status = 200
    /\ \A f \in 1..Len(Feeds) : feed_bodies[f].kind # "xml"
    /\ get_response.markets = <<>>

\* the questions of a list of markets
QuestionsOf(mkts) == {mkts[i].question : i \in 1..Len(mkts)}

\* the label a market is charted under: "Yes" if it has such an outcome,
\* else the label of its first outcome
ChartLabel(m) ==
    IF \E k \in 1..Len(m.outcomes) : m.outcomes[k].label = YesLabel THEN YesLabel
    ELSE m.outcomes[1].label

\* C25: in every response the keys of oddsHistory are exactly the questions
\* of the emitted markets, of which there are at most six, and every entry
\* holds one label, the "Yes" outcome's if the market has one and else the
\* first outcome's, with a series that is not empty.
C25_HistoryForEveryMarket ==
    news_phase = "responded" =>
        LET mkts == get_response.markets
            history == get_response.oddsHistory
        IN  /\ Len(mkts) <= DASHBOARD_KEEP
            /\ DOMAIN history = QuestionsOf(mkts)
            /\ \A q \in DOMAIN history :
                  /\ history[q].points # <<>>
                  /\ \E i \in 1..Len(mkts) :
                        mkts[i].question = q /\ history[q].label = ChartLabel(mkts[i])

\* six of seven markets were emitted, one charted under "Yes" that is not
\* its first outcome and one under its first outcome, one with a fetched
\* series and one with a synthesized one
C25_Witness ==
    /\ news_phase = "responded"
    /\ Len(get_response.markets) = DASHBOARD_KEEP
    /\ Cardinality(DOMAIN get_response.oddsHistory) = DASHBOARD_KEEP
    /\ \E i, j \in 1..DASHBOARD_KEEP :
          LET a == get_response.markets[i]
              b == get_response.markets[j]
              history == get_response.oddsHistory
          IN  /\ a.outcomes[1].label # YesLabel
              /\ history[a.question].label = YesLabel
              /\ history[b.question].label = b.outcomes[1].label
              /\ history[b.question].label # YesLabel
              /\ history[a.question].points = RealSeries(x_now * STEP_HOURS)
              /\ Len(history[b.question].points) = SYNTH_STEPS + 1

(***************************************************************************)
(* Claims about the metadata of the relevance reranker.                    *)
(***************************************************************************)
\* the call filter_x_items_with_llm has returned
FilterReturned == filter_phase # "input" /\ ~filter_result.raised

\* C26: on every return path of filter_x_items_with_llm the result tag of
\* the metadata is no longer 'not_run' and outputCount is the length of the
\* returned list.
C26_MetaMatchesReturn ==
    FilterReturned =>
        /\ filter_result.meta.result # Tag("not_run")
        /\ filter_result.meta.outputCount = Len(filter_result.items)

\* the reply chose fewer candidates than were given: outputCount is the
\* number returned and inputCount the number given
C26_Witness ==
    /\ FilterReturned /\ filter_phase = "replied"
    /\ filter_result.meta.result = Tag("filtered_indices")
    /\ Len(filter_result.items) < Len(cand_items)
    /\ filter_result.meta.outputCount = Len(filter_result.items)
    /\ filter_result.meta.inputCount = Len(cand_items)

\* a failed request returned the candidates: the tag names the failure and
\* outputCount is their number
C26_PassthroughCounted ==
    /\ FilterReturned /\ filter_phase = "failed" /\ Len(cand_items) >= 2
    /\ filter_result.meta.result = Tag("network_error_passthrough")
    /\ filter_result.meta.outputCount = Len(cand_items)

(***************************************************************************)
(* Claims about the shape of a synthesized series.                         *)
(***************************************************************************)
\* C27: a synthesized series has exactly 15 points, their timestamps
\* increase strictly in steps of 6 hours, the first lies 84 hours before
\* now and the last is now.
C27_FifteenPointsSixHoursApart ==
    hist_phase = "done" =>
        \A i \in 1..Len(hist_markets) :
            Synthesized(i) =>
                LET pts == PointsOf(i)
                IN  /\ Len(pts) = 15
                    /\ \A k \in 1..(Len(pts) - 1) : pts[k + 1].t = pts[k].t + 6
                    /\ pts[1].t = hist_now - 84
                    /\ pts[Len(pts)].t = hist_now

\* a market with a token whose fetch yielded nothing got 15 points, from 84
\* hours ago to now
C27_Witness ==
    /\ hist_phase = "done" /\ Len(hist_markets) = 1 /\ Synthesized(1)
    /\ hist_markets[1]._clobTokenId # <<>>
    /\ Len(PointsOf(1)) = 15
    /\ PointsOf(1)[1].t = hist_now - 84
    /\ PointsOf(1)[2].t = hist_now - 78
    /\ PointsOf(1)[15].t = hist_now

(***************************************************************************)
(* Claims about the ladder of the social signal scorer.                    *)
(***************************************************************************)
\* the sanitized text of the scored post and its keyword hits
PostText == sanitize_x_text(Get(scored_post, "text", <<>>))
PostHits == KeywordHits(Lower(PostText), X_QUERY_KEYWORDS)

\* the handle of the scored post's author, in lower case, and its weight in
\* hundredths
PostHandle == UsernameOf(scored_post, Users)
PostWeight == IF PostHandle \in DOMAIN weights THEN weights[PostHandle] ELSE 100

\* engagement + 4*keywordHits + 5*accountWeight, in hundredths
PostComposite == (100 * PostEngagement) + (400 * PostHits) + (5 * PostWeight)

\* the seven conditions of the ladder
LadderPassed ==
    /\ \E a \in 1..Len(X_ALLOWED_ACCOUNTS) : X_ALLOWED_ACCOUNTS[a] = PostHandle
    /\ Len(PostText) >= 40
    /\ PostHits >= 1
    /\ "created_at" \in DOMAIN scored_post /\ scored_post.created_at.parses
    /\ scored_post.created_at.instant >= now_hour - 12
    /\ PostEngagement >= 12
    /\ PostComposite >= 2200

C28_RejectedByScoreOnly ==
    /\ score_phase = "done" /\ verdict = Rejected
    /\ PostEngagement = 12 /\ PostHits = 1 /\ PostWeight = 100
    /\ PostComposite = 2100
    /\ \E a \in 1..Len(X_ALLOWED_ACCOUNTS) : X_ALLOWED_ACCOUNTS[a] = PostHandle
    /\ Len(PostText) >= 40
    /\ "created_at" \in DOMAIN scored_post /\ scored_post.created_at = ParsedAt(now_hour - 12)

(***************************************************************************)
(* Claims about recency within the two origin classes of the merge.        *)
(***************************************************************************)
\* the deduplicated items the merge left out
LeftOut == DedupedSet \ Range(merged)

\* C29: within each origin class the merge selects by recency: the result
\* never holds a social-origin item while a strictly newer deduplicated
\* social-origin item is left out, and never holds a non-social item while
\* a strictly newer deduplicated non-social item is left out.
C29_RecencyWithinClass ==
    phase = "merged" =>
        LET left == LeftOut
        IN  \A k \in 1..Len(merged) : \A other \in left :
                IsXOrigin(other) = IsXOrigin(merged[k]) => TimeKey(other) <= TimeKey(merged[k])

\* the merge left out a social item and a feed item, each strictly older
\* than a kept item of its class, and kept a social item beyond the reserved
\* number through the backfill
C29_Witness ==
    /\ phase = "merged"
    /\ \E k \in 1..Len(merged) : \E other \in LeftOut :
          IsXOrigin(merged[k]) /\ IsXOrigin(other) /\ TimeKey(other) < TimeKey(merged[k])
    /\ \E k \in 1..Len(merged) : \E other \in LeftOut :
          ~IsXOrigin(merged[k]) /\ ~IsXOrigin(other) /\ TimeKey(other) < TimeKey(merged[k])

\* the backfill added social items beyond the reserved number and left the
\* oldest social item out
C29_BackfillNewestFirst ==
    /\ phase = "merged"
    /\ SocialCount(merged) > X_RESERVED_NEWS_SLOTS
    /\ \E k \in 1..Len(merged) : \E other \in LeftOut :
          IsXOrigin(merged[k]) /\ IsXOrigin(other) /\ TimeKey(other) < TimeKey(merged[k])

====
